---- MODULE Spec2Model ----
(***************************************************************************)
(* A model of code-commenter's core: parameter extraction, type inference, *)
(* return-type inference and JSDoc rendering (src/src/param-utils.js) and  *)
(* the comment-presence detector (src/src/processor.js).                   *)
(*                                                                         *)
(* JavaScript strings are TLA+ strings; syntax-tree nodes and extracted    *)
(* Parameters are records holding exactly the fields the code sets.        *)
(***************************************************************************)
EXTENDS Integers, Sequences, FiniteSets, TLC

VARIABLES
    node,          \* the function node handed to param-utils
    isTypeScript,  \* the isTypeScript flag / option
    example,       \* options.example
    pc,            \* which param-utils entry point has run on node
    params,        \* result of extractParams
    returnType,    \* result of getReturnType
    doc,           \* result of generateParamDocs
    code,          \* hasComment: the source text
    hcNode,        \* hasComment: the node whose leading comment is looked for
    hc,            \* hasComment: "idle", or the verdict "true" / "false"
    thrown,        \* whether an exception escaped the entry point that ran
    file,          \* processFile: the file at filePath, [path, text]
    matched,       \* the CLI: the files the patterns match, in order
    options,       \* processFile / the CLI: the options in effect
    result,        \* processFile: the object it resolves to
    writes,        \* the fs.writeFile calls made so far, [path, text]
    dirs,          \* the directories ensureDirectoryExists was asked for
    stderr,        \* the messages written with console.error
    stdout,        \* the messages written with console.log / process.stdout
    status,        \* the CLI: the status of process.exit, -1 while running
    batch,         \* a run of calls: the function nodes still to be handed over
    lastIndex,     \* a run of calls: paramIndex as the last call left it
    outputs,       \* a run of calls: what each call was given and returned
    typeNode,      \* getTSType: the type node handed over
    fallback,      \* getTSType: the defaultType handed over
    typeText       \* getTSType: the string returned, UNDEF before the call

\* the state of the param-utils entry points, of hasComment, and of
\* processFile and the CLI
coreVars == <<node, isTypeScript, example, pc, params, returnType, doc>>
detVars == <<code, hcNode, hc>>
fileVars == <<file, matched, options, result, writes, dirs, stderr, stdout, status>>

batchVars == <<batch, lastIndex, outputs>>

typeVars == <<typeNode, fallback, typeText>>

vars == <<coreVars, detVars, thrown, fileVars, batchVars, typeVars>>

(***************************************************************************)
(* JavaScript values                                                       *)
(***************************************************************************)

\* the value undefined where a string is expected (a missing .name)
UNDEF == "<undefined>"

\* null / undefined where a node or a Parameter is expected
NoNode == [type |-> "<none>"]

Has(r, f) == f \in DOMAIN r

\* r.f for a node-valued field, undefined when the field is missing
Field(r, f) == IF f \in DOMAIN r THEN r[f] ELSE NoNode

\* r.f for a string-valued field
StrField(r, f) == IF f \in DOMAIN r THEN r[f] ELSE UNDEF

\* obj.f = v on an object literal
SetField(r, f, v) == [x \in (DOMAIN r) \cup {f} |-> IF x = f THEN v ELSE r[x]]

\* a string is truthy unless it is undefined or empty
Truthy(s) == s # UNDEF /\ s # ""

\* `${s}`
Tpl(s) == IF s = UNDEF THEN "undefined" ELSE s

(***************************************************************************)
(* String primitives                                                       *)
(***************************************************************************)

Char(s, i) == IF 1 <= i /\ i <= Len(s) THEN SubSeq(s, i, i) ELSE ""

Digits == {"0", "1", "2", "3", "4", "5", "6", "7", "8", "9"}

Lower == {"a", "b", "c", "d", "e", "f", "g", "h", "i", "j", "k", "l", "m",
          "n", "o", "p", "q", "r", "s", "t", "u", "v", "w", "x", "y", "z"}

Upper == {"A", "B", "C", "D", "E", "F", "G", "H", "I", "J", "K", "L", "M",
          "N", "O", "P", "Q", "R", "S", "T", "U", "V", "W", "X", "Y", "Z"}

WhiteSpace == {" ", "\t", "\r", "\n"}

StartsWith(s, p) == Len(s) >= Len(p) /\ SubSeq(s, 1, Len(p)) = p

EndsWith(s, p) == Len(s) >= Len(p) /\ SubSeq(s, Len(s) - Len(p) + 1, Len(s)) = p

\* s.includes(p)
Includes(s, p) == \E i \in 1..(Len(s) - Len(p) + 1) : SubSeq(s, i, i + Len(p) - 1) = p

\* the least of the positions hits; 0 when there is none
Least(hits) == IF hits = {} THEN 0 ELSE CHOOSE i \in hits : \A j \in hits : i <= j

\* s.indexOf(p), 1-based; 0 when absent
IndexOf(s, p) ==
    Least({i \in 1..(Len(s) - Len(p) + 1) : SubSeq(s, i, i + Len(p) - 1) = p})

\* s.replace(p, r) with a string pattern: the first occurrence only
ReplaceFirst(s, p, r) ==
    LET i == IndexOf(s, p)
    IN  IF i = 0 THEN s
        ELSE SubSeq(s, 1, i - 1) \o r \o SubSeq(s, i + Len(p), Len(s))

RECURSIVE TrimStart(_)
TrimStart(s) ==
    IF s # "" /\ Char(s, 1) \in WhiteSpace THEN TrimStart(SubSeq(s, 2, Len(s))) ELSE s

RECURSIVE TrimEnd(_)
TrimEnd(s) ==
    IF s # "" /\ Char(s, Len(s)) \in WhiteSpace THEN TrimEnd(SubSeq(s, 1, Len(s) - 1)) ELSE s

\* s.trim()
Trim(s) == TrimEnd(TrimStart(s))

RECURSIVE Spaces(_)
\* ' '.repeat(n)
Spaces(n) == IF n <= 0 THEN "" ELSE " " \o Spaces(n - 1)

RECURSIVE Join(_, _)
\* arr.join(sep)
Join(arr, sep) ==
    IF Len(arr) = 0 THEN ""
    ELSE IF Len(arr) = 1 THEN arr[1]
    ELSE arr[1] \o sep \o Join(Tail(arr), sep)

\* the pieces of s between the positions at, which are in ascending order
Pieces(s, at) ==
    [k \in 1..(Len(at) + 1) |->
        SubSeq(s, IF k = 1 THEN 1 ELSE at[k - 1] + 1,
                  IF k > Len(at) THEN Len(s) ELSE at[k] - 1)]

\* s.split(sep) for a one-character separator
Split(s, sep) ==
    Pieces(s, SelectSeq([i \in 1..Len(s) |-> i], LAMBDA i : SubSeq(s, i, i) = sep))

Max(a, b) == IF a >= b THEN a ELSE b

\* the number of leading digits of s from position i on
RECURSIVE DigitRun(_, _)
DigitRun(s, i) ==
    IF i <= Len(s) /\ Char(s, i) \in Digits THEN 1 + DigitRun(s, i + 1) ELSE 0

\* /^param\d+$/.test(s)
IsParamN(s) ==
    /\ StartsWith(s, "param")
    /\ DigitRun(s, 6) >= 1
    /\ 5 + DigitRun(s, 6) = Len(s)

\* s.replace(/^param\d+\./, '')
StripParamPrefix(s) ==
    IF /\ StartsWith(s, "param")
       /\ DigitRun(s, 6) >= 1
       /\ Char(s, 6 + DigitRun(s, 6)) = "."
    THEN SubSeq(s, 7 + DigitRun(s, 6), Len(s))
    ELSE s

(***************************************************************************)
(* Syntax-tree nodes (ESTree / typescript-estree shapes)                   *)
(***************************************************************************)

Identifier(n) == [type |-> "Identifier", name |-> n]

\* name: T
TypedIdentifier(n, t) ==
    [type |-> "Identifier", name |-> n,
     typeAnnotation |-> [type |-> "TSTypeAnnotation", typeAnnotation |-> t]]

AssignmentPattern(l, r) == [type |-> "AssignmentPattern", left |-> l, right |-> r]

ObjectPattern(ps) == [type |-> "ObjectPattern", properties |-> ps]

ArrayPattern(es) == [type |-> "ArrayPattern", elements |-> es]

RestElement(a) == [type |-> "RestElement", argument |-> a]

TSParameterProperty(p) == [type |-> "TSParameterProperty", parameter |-> p]

\* key: value inside an object pattern or an object literal
Property(k, v) == [type |-> "Property", key |-> k, value |-> v]

\* a string-literal key such as "my-key": it has a value and no name
LiteralKey == [type |-> "Literal"]

NumberLiteral(n) == [type |-> "Literal", value |-> [t |-> "number", num |-> n]]

StringLiteral(s) == [type |-> "Literal", value |-> [t |-> "string", str |-> s]]

BooleanLiteral(b) == [type |-> "Literal", value |-> [t |-> "boolean", bool |-> b]]

\* typeof null is "object"
NullLiteral == [type |-> "Literal", value |-> [t |-> "object"]]

ArrayExpression == [type |-> "ArrayExpression", elements |-> <<>>]

ObjectExpression(ps) == [type |-> "ObjectExpression", properties |-> ps]

BinaryExpression == [type |-> "BinaryExpression"]

TSKeyword(k) == [type |-> k]

TSTypeReference(n) == [type |-> "TSTypeReference", typeName |-> [name |-> n]]

TSArrayType(t) == [type |-> "TSArrayType", elementType |-> t]

TSUnionType(ts) == [type |-> "TSUnionType", types |-> ts]

(***************************************************************************)
(* escodegen's generate(expr, {format: {quotes: "double"}})                *)
(***************************************************************************)

RECURSIVE generate(_)
generate(expr) ==
    CASE expr.type = "Literal" ->
            (CASE expr.value.t = "number"  -> ToString(expr.value.num)
               [] expr.value.t = "string"  -> "\"" \o expr.value.str \o "\""
               [] expr.value.t = "boolean" -> IF expr.value.bool THEN "true" ELSE "false"
               [] OTHER -> "null")
      [] expr.type = "ArrayExpression" -> "[]"
      [] expr.type = "ObjectExpression" ->
            IF Len(expr.properties) = 0 THEN "{}"
            ELSE "{ " \o expr.properties[1].key.name \o ": "
                      \o generate(expr.properties[1].value) \o " }"
      [] expr.type = "Identifier" -> expr.name
      [] OTHER -> "a + b"

(***************************************************************************)
(* param-utils.js                                                          *)
(***************************************************************************)

getPropertyName(property) ==
    IF property = NoNode THEN "unknown"
    ELSE IF Field(property, "key") # NoNode THEN StrField(property.key, "name")
    ELSE IF Field(property, "argument") # NoNode THEN StrField(property.argument, "name")
    ELSE IF property.type = "Identifier" THEN property.name
    ELSE "unknown"

RECURSIVE getTSType(_, _)
getTSType(tsNode, defaultType) ==
    IF tsNode = NoNode THEN defaultType
    ELSE IF Field(tsNode, "typeAnnotation") # NoNode
         THEN getTSType(tsNode.typeAnnotation, defaultType)
    ELSE IF tsNode.type = "TSTypeAnnotation"
         THEN getTSType(Field(tsNode, "typeAnnotation"), defaultType)
    ELSE CASE tsNode.type = "TSStringKeyword"  -> "string"
           [] tsNode.type = "TSNumberKeyword"  -> "number"
           [] tsNode.type = "TSBooleanKeyword" -> "boolean"
           [] tsNode.type = "TSAnyKeyword"     -> "any"
           [] tsNode.type = "TSVoidKeyword"    -> "void"
           [] tsNode.type = "TSArrayType" ->
                 "Array<" \o getTSType(tsNode.elementType, "any") \o ">"
           [] tsNode.type = "TSTypeReference" ->
                 LET tn == Field(tsNode, "typeName")
                 IN  IF tn # NoNode /\ Truthy(StrField(tn, "name")) THEN tn.name
                     ELSE IF tn # NoNode /\ Has(tn, "left") /\ Has(tn, "right")
                          THEN Tpl(StrField(tn.left, "name")) \o "."
                                   \o Tpl(StrField(tn.right, "name"))
                     ELSE defaultType
           [] tsNode.type = "TSUnionType" ->
                 Join([i \in 1..Len(tsNode.types) |->
                          getTSType(tsNode.types[i], defaultType)], " | ")
           [] tsNode.type = "TSIntersectionType" ->
                 Join([i \in 1..Len(tsNode.types) |->
                          getTSType(tsNode.types[i], defaultType)], " & ")
           [] tsNode.type = "TSLiteralType" ->
                 IF Has(tsNode, "literal") /\ Has(tsNode.literal, "value")
                 THEN tsNode.literal.value.t
                 ELSE defaultType
           [] tsNode.type = "ObjectPattern" -> "Object"
           [] tsNode.type = "ArrayPattern"  -> "Array"
           [] OTHER -> defaultType

inferTypeFromDefault(identifierNode) ==
    IF identifierNode # NoNode /\ Field(identifierNode, "typeAnnotation") # NoNode
    THEN getTSType(identifierNode.typeAnnotation, "any")
    ELSE IF identifierNode # NoNode /\ Has(identifierNode, "default")
         THEN (CASE identifierNode.default.t \in {"string", "number", "boolean"} ->
                       identifierNode.default.t
                 [] identifierNode.default.t = "array" -> "Array"
                 [] identifierNode.default.t = "object" -> "Object"
                 [] OTHER -> "any")
    ELSE "any"

\* the type a literal default assigns: typeof right.value when it is
\* number, string or boolean, otherwise the type stays as it was
LiteralType(right, type) ==
    IF right.value.t \in {"number", "string", "boolean"} THEN right.value.t ELSE type

\* the Parameter of a rest property of an object pattern
ObjectRestParam(prop) ==
    [name |-> getPropertyName(prop), type |-> "Object",
     isRest |-> TRUE, hasDefault |-> FALSE]

\* a rest element extracted as if it carried a default value
RestParamWithDefault(p, isTS) ==
    [name |-> "..." \o Tpl(getPropertyName(p)),
     type |-> IF isTS THEN getTSType(p.argument, "any") ELSE "Array<any>",
     isRest |-> TRUE, hasDefault |-> TRUE, optional |-> FALSE]

\* the Parameter of a rest element (a rest parameter, or the rest of an array pattern)
RestParam(p, isTS) ==
    [name |-> "..." \o Tpl(getPropertyName(p)),
     type |-> IF isTS THEN getTSType(p.argument, "any") ELSE "Array<any>",
     isRest |-> TRUE, hasDefault |-> FALSE, optional |-> FALSE]

RECURSIVE extractObjectPatternProperties(_, _)
RECURSIVE extractParam(_, _, _)
RECURSIVE ExtractProperty(_, _)

\* one iteration of the loop of extractObjectPatternProperties: the
\* Parameters (none or one) that prop pushes on `extracted`
ExtractProperty(prop, isTS) ==
    IF prop.type = "RestElement" THEN <<ObjectRestParam(prop)>>
    ELSE IF prop.type # "Property" THEN <<>>
    ELSE
    LET propName == getPropertyName(prop)
        value0 == prop.value
        isAssign == value0.type = "AssignmentPattern"
        type0 ==
            IF ~isTS THEN "any"
            ELSE IF value0.type = "Identifier" /\ Field(value0, "typeAnnotation") # NoNode
                 THEN getTSType(value0.typeAnnotation, "any")
            ELSE IF isAssign /\ Field(value0.left, "typeAnnotation") # NoNode
                 THEN getTSType(value0.left.typeAnnotation, "any")
            ELSE IF Field(prop, "typeAnnotation") # NoNode
                 THEN getTSType(prop.typeAnnotation, "any")
            ELSE "any"
        type1 ==
            IF ~isAssign THEN type0
            ELSE IF value0.right.type = "Literal" THEN LiteralType(value0.right, type0)
            ELSE IF value0.right.type = "ObjectExpression" THEN "Object"
            ELSE type0
        valueNode == IF isAssign THEN value0.left ELSE value0
        base == [name |-> propName, type |-> type1,
                 hasDefault |-> isAssign, optional |-> FALSE]
        param == IF isAssign /\ Truthy(generate(value0.right))
                 THEN SetField(base, "defaultValue", generate(value0.right))
                 ELSE base
    IN  IF \/ valueNode.type = "ObjectPattern"
           \/ (isAssign /\ value0.right.type = "ObjectExpression")
        THEN <<SetField([param EXCEPT !.type = "Object"], "properties",
                   extractObjectPatternProperties(
                       IF valueNode.type = "ObjectPattern"
                       THEN valueNode.properties
                       ELSE value0.right.properties, isTS))>>
        ELSE IF valueNode.type = "ArrayPattern"
        THEN <<SetField([param EXCEPT !.type = "Array"], "elements",
                   [i \in 1..Len(valueNode.elements) |->
                       extractParam(valueNode.elements[i], isTS, i - 1)])>>
        ELSE <<param>>

extractObjectPatternProperties(properties, isTS) ==
    IF Len(properties) = 0 THEN <<>>
    ELSE ExtractProperty(Head(properties), isTS)
             \o extractObjectPatternProperties(Tail(properties), isTS)

extractParam(p, isTS, paramIndex) ==
    IF p = NoNode THEN NoNode
    ELSE CASE p.type = "Identifier" ->
            [name |-> p.name,
             type |-> IF isTS THEN getTSType(p, "any") ELSE inferTypeFromDefault(p),
             isRest |-> FALSE, hasDefault |-> FALSE, optional |-> FALSE,
             isParamProperty |-> FALSE]
      [] p.type = "AssignmentPattern" ->
            LET paramInfo == extractParam(p.left, isTS, paramIndex)
            IN  IF paramInfo = NoNode THEN NoNode
                ELSE SetField(
                       [paramInfo EXCEPT
                          !.hasDefault = TRUE,
                          !.type = IF p.right.type = "Literal"
                                   THEN LiteralType(p.right, paramInfo.type)
                                   ELSE IF p.right.type = "ArrayExpression" THEN "Array"
                                   ELSE IF p.right.type = "ObjectExpression" THEN "Object"
                                   ELSE paramInfo.type],
                       "defaultValue", generate(p.right))
      [] p.type = "ObjectPattern" ->
            [name |-> "param" \o ToString(paramIndex),
             type |-> IF isTS THEN getTSType(p, "Object") ELSE "Object",
             isRest |-> FALSE, hasDefault |-> FALSE,
             properties |-> extractObjectPatternProperties(p.properties, isTS)]
      [] p.type = "ArrayPattern" ->
            [name |-> "param" \o ToString(paramIndex), type |-> "Array",
             isRest |-> FALSE, hasDefault |-> FALSE,
             elements |-> [i \in 1..Len(p.elements) |->
                              extractParam(p.elements[i], isTS, i - 1)]]
      [] p.type = "RestElement" -> RestParam(p, isTS)
      [] p.type = "TSParameterProperty" ->
            LET paramInfo == extractParam(p.parameter, isTS, paramIndex)
            IN  IF paramInfo = NoNode THEN NoNode
                ELSE SetField([paramInfo EXCEPT !.type = getTSType(p.parameter, "any")],
                              "isParamProperty", TRUE)
      [] OTHER -> NoNode

\* whether extractParams advances paramIndex after pushing `extracted`
AdvancesIndex(extracted) ==
    Truthy(extracted.name) /\ StartsWith(extracted.name, "param")

\* the loop of extractParams from paramIndex on
RECURSIVE ExtractFrom(_, _, _)
ExtractFrom(paramNodes, isTS, paramIndex) ==
    IF Len(paramNodes) = 0 THEN <<>>
    ELSE LET extracted == extractParam(Head(paramNodes), isTS, paramIndex)
         IN  IF extracted = NoNode
             THEN ExtractFrom(Tail(paramNodes), isTS, paramIndex)
             ELSE <<extracted>> \o
                  ExtractFrom(Tail(paramNodes), isTS,
                              IF AdvancesIndex(extracted) THEN paramIndex + 1
                              ELSE paramIndex)

\* paramIndex when the loop of extractParams ends
RECURSIVE IndexAfter(_, _, _)
IndexAfter(paramNodes, isTS, paramIndex) ==
    IF Len(paramNodes) = 0 THEN paramIndex
    ELSE IndexAfter(Tail(paramNodes), isTS,
                    IF /\ extractParam(Head(paramNodes), isTS, paramIndex) # NoNode
                       /\ AdvancesIndex(extractParam(Head(paramNodes), isTS, paramIndex))
                    THEN paramIndex + 1 ELSE paramIndex)

\* a counter that outlives the call: the next call goes on where the last
\* one stopped
FirstIndexCarried(last) == last

\* let paramIndex = 1: the counter is a local of extractParams, so every call
\* starts at 1 wherever the last call stopped
FirstIndex(last) == 1

\* node.params || (node.value && node.value.params)
ParamNodes(fn) ==
    IF Has(fn, "params") THEN fn.params
    ELSE IF Has(fn, "value") /\ Has(fn.value, "params") THEN fn.value.params
    ELSE <<>>

extractParams(fn, isTS) == ExtractFrom(ParamNodes(fn), isTS, 1)

\* walk.simple(root, {ReturnStatement(n) { if (n.argument) hasReturn = true }}):
\* acorn-walk visits every node below root, nested functions included
RECURSIVE HasValueReturn(_)
HasValueReturn(n) ==
    \/ n.type = "ReturnStatement" /\ Field(n, "argument") # NoNode
    \/ n.type = "BlockStatement" /\ \E i \in 1..Len(n.body) : HasValueReturn(n.body[i])
    \/ n.type = "IfStatement" /\ HasValueReturn(n.consequent)
    \/ n.type = "ExpressionStatement" /\ HasValueReturn(n.expression)
    \/ n.type \in {"FunctionDeclaration", "FunctionExpression", "ArrowFunctionExpression"}
          /\ HasValueReturn(n.body)

\* the values of the return statements below n, in source order
RECURSIVE ReturnValues(_)
ReturnValues(n) ==
    IF n.type = "ReturnStatement"
    THEN (IF Field(n, "argument") # NoNode THEN <<n.argument>> ELSE <<>>)
    ELSE IF n.type = "BlockStatement"
    THEN (IF Len(n.body) = 0 THEN <<>>
          ELSE ReturnValues(Head(n.body))
                   \o ReturnValues([type |-> "BlockStatement", body |-> Tail(n.body)]))
    ELSE IF n.type = "IfStatement" THEN ReturnValues(n.consequent)
    ELSE IF n.type = "ExpressionStatement" THEN ReturnValues(n.expression)
    ELSE IF n.type \in {"FunctionDeclaration", "FunctionExpression", "ArrowFunctionExpression"}
    THEN ReturnValues(n.body)
    ELSE <<>>

\* the type the syntactic shape of a returned expression suggests
ShapeType(e) ==
    IF e.type = "ArrayExpression" THEN "Array"
    ELSE IF e.type = "ObjectExpression" THEN "Object"
    ELSE IF e.type = "Literal" THEN e.value.t
    ELSE "any"

\* a getReturnType that classifies the first returned value by its shape
getReturnTypeByShape(functionNode, isTS) ==
    IF isTS /\ Field(functionNode, "returnType") # NoNode
    THEN getTSType(functionNode.returnType, "any")
    ELSE IF /\ Field(functionNode, "body") # NoNode
            /\ ReturnValues(functionNode.body) # <<>>
    THEN ShapeType(Head(ReturnValues(functionNode.body)))
    ELSE IF /\ functionNode.type = "ArrowFunctionExpression"
            /\ functionNode.body.type # "BlockStatement"
    THEN ShapeType(functionNode.body)
    ELSE UNDEF

\* the result null is UNDEF
getReturnType(functionNode, isTS) ==
    IF isTS /\ Field(functionNode, "returnType") # NoNode
    THEN getTSType(functionNode.returnType, "any")
    ELSE IF Field(functionNode, "body") # NoNode /\ HasValueReturn(functionNode.body)
    THEN "any"
    ELSE IF /\ functionNode.type = "ArrowFunctionExpression"
            /\ functionNode.body.type # "BlockStatement"
    THEN "any"
    ELSE UNDEF

BoolField(r, f) == f \in DOMAIN r /\ r[f]

\* the entries of an elements array that are not holes
Present(elements) == SelectSeq(elements, LAMBDA e : e # NoNode)

\* the label collectNamesAndTypes gives param under parentName
CollectName(param, parentName) ==
    IF Truthy(parentName) THEN parentName \o "." \o Tpl(param.name) ELSE param.name

\* what collectNamesAndTypes hands to the children as their parentName
ChildParent(nameStr) == IF nameStr = UNDEF THEN "" ELSE nameStr

RECURSIVE CollectNames(_, _)
RECURSIVE CollectNamesOfAll(_, _)
\* the entries collectNamesAndTypes(param, parentName) pushes on allNames
CollectNames(param, parentName) ==
    LET nameStr == CollectName(param, parentName)
    IN  <<nameStr>>
        \o (IF Has(param, "properties")
            THEN CollectNamesOfAll(param.properties, ChildParent(nameStr)) ELSE <<>>)
        \o (IF Has(param, "elements")
            THEN CollectNamesOfAll(Present(param.elements), ChildParent(nameStr)) ELSE <<>>)

CollectNamesOfAll(ps, parentName) ==
    IF Len(ps) = 0 THEN <<>>
    ELSE CollectNames(Head(ps), parentName) \o CollectNamesOfAll(Tail(ps), parentName)

RECURSIVE CollectTypes(_)
RECURSIVE CollectTypesOfAll(_)
\* the entries collectNamesAndTypes(param) pushes on allTypes
CollectTypes(param) ==
    <<param.type>>
    \o (IF Has(param, "properties") THEN CollectTypesOfAll(param.properties) ELSE <<>>)
    \o (IF Has(param, "elements") THEN CollectTypesOfAll(Present(param.elements)) ELSE <<>>)

CollectTypesOfAll(ps) ==
    IF Len(ps) = 0 THEN <<>>
    ELSE CollectTypes(Head(ps)) \o CollectTypesOfAll(Tail(ps))

\* strs.filter(Boolean).reduce((max, s) => Math.max(max, s.length), 0)
RECURSIVE MaxLenOf(_)
MaxLenOf(strs) ==
    IF Len(strs) = 0 THEN 0
    ELSE Max(IF Truthy(Head(strs)) THEN Len(Head(strs)) ELSE 0, MaxLenOf(Tail(strs)))

\* the character that encloses a default value in a rendered line; a TLA+
\* string cannot hold a backquote, so "~" stands for it
Backquote == "~"

pad(str, len) == str \o Spaces(Max(0, len - Len(str)))

\* what a TypeError inside the try block leaves in place of a line
THROWN == "<TypeError>"

\* a nameStr that keeps the synthetic prefix
DocNameUnstripped(param, parentName, kind, isArrayElement) ==
    IF isArrayElement /\ Truthy(param.name) THEN param.name
    ELSE IF Truthy(parentName) THEN parentName \o "." \o Tpl(param.name)
    ELSE IF param.name = UNDEF THEN THROWN
    ELSE param.name

\* nameStr of docForParam; THROWN when .replace is called on undefined
DocName(param, parentName, kind, isArrayElement) ==
    IF isArrayElement /\ Truthy(param.name) THEN param.name
    ELSE IF kind = "property" /\ Truthy(parentName) /\ Truthy(param.name)
    THEN StripParamPrefix(parentName \o "." \o param.name)
    ELSE IF Truthy(parentName)
    THEN StripParamPrefix(parentName \o "." \o Tpl(param.name))
    ELSE IF param.name = UNDEF THEN THROWN
    ELSE StripParamPrefix(param.name)

\* a note that claims more than the code does: on every type that mentions any
AnySuffixLoose(typeStr) ==
    IF Includes(typeStr, "any") THEN " (Type could not be inferred)" ELSE ""

\* the note docForParam appends to the line of a param typed exactly any
AnySuffix(typeStr) ==
    IF typeStr = "any" THEN " (Type could not be inferred)" ELSE ""

\* the line docForParam pushes for a param that is not skipped
DocLine(param, nameStr, kind, isArrayElement, maxTypeLen, maxNameLen) ==
    LET typeStr == param.type
        dv == Tpl(StrField(param, "defaultValue"))
        isRest == BoolField(param, "isRest")
        line ==
            IF isArrayElement /\ isRest /\ typeStr \in {"Array", "Array<any>"}
            THEN "@param {Array} ..." \o ReplaceFirst(param.name, "...", "")
                     \o " - Rest parameter"
            ELSE IF isArrayElement
            THEN IF param.hasDefault
                 THEN "@param {" \o typeStr \o "} " \o pad(nameStr, maxNameLen)
                          \o " - Default value: " \o Backquote \o dv \o Backquote
                          \o ". - Parameter '"
                          \o Tpl(param.name) \o "'"
                 ELSE "@param {" \o typeStr \o "} " \o pad(nameStr, maxNameLen)
                          \o " - Parameter '" \o Tpl(param.name) \o "'"
            ELSE IF param.hasDefault
            THEN IF kind = "property"
                 THEN "@param {" \o typeStr \o "} " \o pad(nameStr, maxNameLen)
                          \o " - Default value: " \o Backquote \o dv \o Backquote
                          \o ". - Property '"
                          \o Tpl(param.name) \o "'"
                 ELSE "@param {" \o pad(typeStr, maxTypeLen) \o "} ["
                          \o pad(nameStr, maxNameLen) \o "=" \o dv
                          \o "] - Parameter '" \o nameStr \o "'"
            ELSE IF isRest
            THEN "@param {..."
                     \o ReplaceFirst(ReplaceFirst(typeStr, "Array<", ""), ">", "")
                     \o "} " \o ReplaceFirst(nameStr, "...", "") \o " - Rest parameter"
            ELSE IF kind = "property"
                 THEN "@param {" \o typeStr \o "} " \o pad(nameStr, maxNameLen)
                          \o " - Property '" \o Tpl(param.name) \o "'"
                 ELSE "@param {" \o pad(typeStr, maxTypeLen) \o "} "
                          \o pad(nameStr, maxNameLen) \o " - Parameter '" \o nameStr \o "'"
    IN  line \o AnySuffix(typeStr)

\* whether docForParam returns before pushing a line for nameStr
SkipsLine(nameStr) == IsParamN(nameStr)

RECURSIVE DocFrom(_, _, _, _, _, _)
RECURSIVE DocForAll(_, _, _, _, _, _)
\* the lines docForParam pushes on paramDocs, in order, once nameStr is
\* computed: its own line unless skipped, then those of its children
DocFrom(param, nameStr, kind, isArrayElement, maxTypeLen, maxNameLen) ==
    IF nameStr = THROWN THEN <<THROWN>>
    ELSE (IF SkipsLine(nameStr) THEN <<>>
          ELSE <<DocLine(param, nameStr, kind, isArrayElement, maxTypeLen, maxNameLen)>>)
         \o (IF Has(param, "properties")
             THEN DocForAll(param.properties, nameStr, "property", FALSE,
                            maxTypeLen, maxNameLen)
             ELSE <<>>)
         \o (IF Has(param, "elements")
             THEN DocForAll(Present(param.elements), nameStr, kind, TRUE,
                            maxTypeLen, maxNameLen)
             ELSE <<>>)

\* the lines docForParam(param, parentName, kind, isArrayElement) pushes on
\* paramDocs, in order
docForParam(param, parentName, kind, isArrayElement, maxTypeLen, maxNameLen) ==
    DocFrom(param, DocName(param, parentName, kind, isArrayElement), kind,
            isArrayElement, maxTypeLen, maxNameLen)

DocForAll(ps, parentName, kind, isArrayElement, maxTypeLen, maxNameLen) ==
    IF Len(ps) = 0 THEN <<>>
    ELSE docForParam(Head(ps), parentName, kind, isArrayElement, maxTypeLen, maxNameLen)
         \o DocForAll(Tail(ps), parentName, kind, isArrayElement, maxTypeLen, maxNameLen)

IdentStart == Lower \cup Upper \cup {"_", "$"}

\* name => !!name && name !== 'undefined' && /^[a-zA-Z_$][a-zA-Z0-9_$]*$/.test(name)
isValidIdentifier(name) ==
    /\ Truthy(name)
    /\ name # "undefined"
    /\ Char(name, 1) \in IdentStart
    /\ \A i \in 2..Len(name) : Char(name, i) \in IdentStart \cup Digits

\* functionNameArg, or the node's own name, or 'anonymous'
FunctionName(functionNode, functionNameArg) ==
    IF Truthy(functionNameArg) THEN functionNameArg
    ELSE IF Field(functionNode, "id") # NoNode THEN functionNode.id.name
    ELSE "anonymous"

\* a summary that never uses the singular
SummaryLinePlural(paramNames, functionName) ==
    IF /\ Len(paramNames) > 0
       /\ \A i \in 1..Len(paramNames) : isValidIdentifier(Trim(paramNames[i]))
    THEN (IF Truthy(functionName) /\ functionName # "anonymous"
          THEN "Function " \o functionName ELSE "Function")
         \o " with parameters '" \o Join(paramNames, "', '") \o "'"
    ELSE "TODO: Describe what this function does (auto-generated)"

SummaryLine(paramNames, functionName) ==
    IF /\ Len(paramNames) > 0
       /\ \A i \in 1..Len(paramNames) : isValidIdentifier(Trim(paramNames[i]))
    THEN (IF Truthy(functionName) /\ functionName # "anonymous"
          THEN "Function " \o functionName ELSE "Function")
         \o (IF Len(paramNames) = 1 THEN " with parameter '" ELSE " with parameters '")
         \o Join(paramNames, "', '") \o "'"
    ELSE "TODO: Describe what this function does (auto-generated)"

ExampleCall(paramNames, functionName) ==
    (IF Truthy(functionName) /\ functionName # "anonymous" THEN functionName ELSE "function")
    \o "(" \o Join([i \in 1..Len(paramNames) |->
                       IF Truthy(paramNames[i]) THEN paramNames[i] ELSE "value"], ", ")
    \o ")"

\* the array paramDocs when the JSDoc block is built: the @param lines,
\* then a blank separator and the @returns line
\* the @param lines of the parameters ps, aligned on their longest type and name
ParamLines(ps) ==
    DocForAll(ps, "", "param", FALSE,
              MaxLenOf(CollectTypesOfAll(ps)), MaxLenOf(CollectNamesOfAll(ps, "")))

\* paramDocs once the return type rt is known
WithReturns(paramLines, rt) ==
    IF Truthy(rt)
    THEN paramLines \o (IF Len(paramLines) > 0 THEN <<"">> ELSE <<>>)
                    \o <<"@returns {" \o rt \o "} - The return value">>
    ELSE paramLines

ParamDocs(functionNode, isTS) ==
    WithReturns(ParamLines(extractParams(functionNode, isTS)),
                getReturnType(functionNode, isTS))

ParamNames(ps) == [i \in 1..Len(ps) |-> ps[i].name]

\* the JSDoc block built from paramDocs; "" when a TypeError was caught
BuildDoc(paramDocs, paramNames, functionName, wantExample) ==
    IF \E i \in 1..Len(paramDocs) : paramDocs[i] = THROWN THEN ""
    ELSE "/**\n"
         \o " * @summary " \o SummaryLine(paramNames, functionName) \o "\n"
         \o (IF wantExample
             THEN " * @example\n * " \o ExampleCall(paramNames, functionName) \o "\n"
             ELSE "")
         \o (IF Len(paramDocs) > 0
             THEN " * \n"
                  \o Join([i \in 1..Len(paramDocs) |-> " * " \o paramDocs[i]], "\n")
                  \o "\n"
             ELSE "")
         \o " */"

\* extractParams reads node.params of whatever it is handed: null has none
\* to read and the read throws a TypeError
extractParamsThrows(functionNode) == functionNode = NoNode

\* walk.simple looks every node's type up in its base visitor and calls what
\* it finds: a node type acorn-walk does not know (x as any, which only the
\* TypeScript parser produces) makes the call throw a TypeError
RECURSIVE WalkThrows(_)
WalkThrows(n) ==
    \/ n.type = "TSAsExpression"
    \/ n.type = "ReturnStatement" /\ Field(n, "argument") # NoNode /\ WalkThrows(n.argument)
    \/ n.type = "BlockStatement" /\ \E i \in 1..Len(n.body) : WalkThrows(n.body[i])
    \/ n.type = "IfStatement" /\ WalkThrows(n.consequent)
    \/ n.type = "ExpressionStatement" /\ WalkThrows(n.expression)
    \/ n.type \in {"FunctionDeclaration", "FunctionExpression", "ArrowFunctionExpression"}
          /\ WalkThrows(n.body)

\* getReturnType reads functionNode.returnType or functionNode.body of
\* whatever it is handed, walks the body, and reads functionNode.body.type of
\* an arrow function that reached the last test
getReturnTypeThrows(functionNode, isTS) ==
    \/ functionNode = NoNode
    \/ /\ ~(isTS /\ Field(functionNode, "returnType") # NoNode)
       /\ Field(functionNode, "body") # NoNode
       /\ WalkThrows(functionNode.body)
    \/ /\ ~(isTS /\ Field(functionNode, "returnType") # NoNode)
       /\ Field(functionNode, "body") = NoNode
       /\ functionNode.type = "ArrowFunctionExpression"

\* the body of generateParamDocs runs inside try: a throw gives ""
generateParamDocs(functionNode, isTS, wantExample, functionNameArg) ==
    IF functionNode = NoNode THEN ""
    ELSE IF getReturnTypeThrows(functionNode, isTS) THEN ""
    ELSE BuildDoc(ParamDocs(functionNode, isTS),
                  ParamNames(extractParams(functionNode, isTS)),
                  FunctionName(functionNode, functionNameArg), wantExample)

\* generateParamDocs once extractParams has returned ps
DocumentWith(functionNode, isTS, ps, functionNameArg) ==
    IF getReturnTypeThrows(functionNode, isTS) THEN ""
    ELSE BuildDoc(WithReturns(ParamLines(ps), getReturnType(functionNode, isTS)),
                  ParamNames(ps), FunctionName(functionNode, functionNameArg), FALSE)

\* the comment generateFunctionComment falls back to
FallbackComment == "/** TODO: Parsing failed for this function. Please check manually. */"

\* param-utils' generateFunctionComment, for a node extractParams accepts
generateFunctionComment(functionNode, isTS, functionNameArg) ==
    LET d == generateParamDocs(functionNode, isTS, FALSE, functionNameArg)
    IN  IF d = "" THEN FallbackComment ELSE d

(***************************************************************************)
(* processor.js: hasComment                                                *)
(***************************************************************************)

\* an upward scan that steps over blank lines
RECURSIVE ScanUpOverBlanks(_, _)
ScanUpOverBlanks(ls, j) ==
    IF j < 1 THEN FALSE
    ELSE IF Includes(ls[j], "/**") \/ Includes(ls[j], "/*") THEN TRUE
    ELSE ScanUpOverBlanks(ls, j - 1)

\* the upward scan of hasComment from line j (1-based) down to line 1
RECURSIVE ScanUp(_, _)
ScanUp(ls, j) ==
    IF j < 1 THEN FALSE
    ELSE IF Includes(ls[j], "/**") \/ Includes(ls[j], "/*") THEN TRUE
    ELSE IF Trim(ls[j]) = "" THEN FALSE
    ELSE ScanUp(ls, j - 1)

\* hasComment looking past blank lines for the nearest line with text
RECURSIVE NearestText(_, _)
NearestText(ls, i) == IF i >= 1 /\ Trim(ls[i]) = "" THEN NearestText(ls, i - 1) ELSE i

hasCommentPastBlanks(n, src) ==
    IF n = NoNode \/ ~Has(n, "loc") THEN FALSE
    ELSE LET ls == Split(src, "\n")
             i == NearestText(ls, n.loc.start.line - 1)
         IN  IF i < 1 THEN FALSE
             ELSE IF StartsWith(Trim(ls[i]), "//") THEN TRUE
             ELSE IF EndsWith(Trim(ls[i]), "*/") THEN ScanUp(ls, i)
             ELSE FALSE

hasComment(n, src) ==
    IF n = NoNode \/ ~Has(n, "loc") THEN FALSE
    ELSE LET ls == Split(src, "\n")
             \* i is the 1-based number of the line immediately above
             i == n.loc.start.line - 1
         IN  IF i < 1 THEN FALSE
             ELSE IF Trim(ls[i]) = "" THEN FALSE
             ELSE IF StartsWith(Trim(ls[i]), "//") THEN TRUE
             ELSE IF EndsWith(Trim(ls[i]), "*/") THEN ScanUp(ls, i)
             ELSE FALSE

\* hasComment trims lines[i] without looking whether the text has a line i
hasCommentThrows(n, src) ==
    /\ n # NoNode /\ Has(n, "loc")
    /\ n.loc.start.line - 1 >= 1
    /\ n.loc.start.line - 1 > Len(Split(src, "\n"))

(***************************************************************************)
(* Inputs                                                                  *)
(***************************************************************************)

\* most parameters of a function
MaxParams == 2
\* most properties of an object pattern / elements of an array pattern
MaxProps == 2
\* most statements of a function body
MaxStmts == 2
\* most lines of a source text
MaxLines == 4

\* all sequences over S of length 0..n
RECURSIVE SeqsUpTo(_, _)
SeqsUpTo(S, n) ==
    IF n = 0 THEN {<<>>}
    ELSE LET shorter == SeqsUpTo(S, n - 1)
         IN  shorter \cup {Append(q, x) : q \in {r \in shorter : Len(r) = n - 1}, x \in S}

TString == TSKeyword("TSStringKeyword")
TNumber == TSKeyword("TSNumberKeyword")

Defaults ==
    {NumberLiteral(5), StringLiteral("x"), BooleanLiteral(TRUE), NullLiteral,
     ArrayExpression, ObjectExpression(<<>>), Identifier("y")}

InnerObject == ObjectPattern(<<Property(Identifier("c"), Identifier("c"))>>)
InnerArray == ArrayPattern(<<Identifier("e")>>)

\* the subsequence of list at the indices in S
RECURSIVE Pick(_, _, _)
Pick(list, S, i) ==
    IF i > Len(list) THEN <<>>
    ELSE (IF i \in S THEN <<list[i]>> ELSE <<>>) \o Pick(list, S, i + 1)

\* the subsequences of list of length 0..n
SubSeqsUpTo(list, n) ==
    {Pick(list, S, 1) : S \in {T \in SUBSET (1..Len(list)) : Cardinality(T) <= n}}

\* what may stand in an object pattern, in source order (a rest is last)
PropList ==
    <<Property(Identifier("a"), Identifier("a")),
      Property(Identifier("n"), AssignmentPattern(Identifier("n"), NumberLiteral(1))),
      Property(Identifier("s"), AssignmentPattern(Identifier("s"), StringLiteral("x"))),
      Property(Identifier("b"), InnerObject),
      Property(Identifier("d"), InnerArray),
      Property(Identifier("param2"), Identifier("param2")),
      Property(LiteralKey, Identifier("v")),
      Property(Identifier("t"), AssignmentPattern(TypedIdentifier("t", TString),
                                                  NumberLiteral(1))),
      Property(Identifier("o"), AssignmentPattern(Identifier("o"),
          ObjectExpression(<<Property(Identifier("x"), NumberLiteral(1))>>))),
      Property(Identifier("p"), AssignmentPattern(InnerObject, NumberLiteral(5))),
      Property(Identifier("q"), AssignmentPattern(InnerArray, ObjectExpression(<<>>))),
      RestElement(Identifier("rest"))>>

\* what may stand in an array pattern, in source order; NoNode is a hole
ElemList ==
    <<NoNode,
      Identifier("e"),
      Identifier("param1"),
      AssignmentPattern(Identifier("n"), NumberLiteral(1)),
      AssignmentPattern(Identifier("f"), BooleanLiteral(FALSE)),
      InnerObject,
      InnerArray,
      RestElement(Identifier("g"))>>

SimpleParams ==
    {Identifier("a"), Identifier("params"), Identifier("param1"),
     TypedIdentifier("t", TString)}

DefaultedParams ==
    {AssignmentPattern(Identifier("a"), d) : d \in Defaults}
    \cup {AssignmentPattern(TypedIdentifier("t", TString), NumberLiteral(5)),
          AssignmentPattern(TypedIdentifier("t", TNumber), NumberLiteral(5)),
          AssignmentPattern(InnerObject, ObjectExpression(<<>>))}

ObjectParams == {ObjectPattern(ps) : ps \in SubSeqsUpTo(PropList, MaxProps)}

ArrayParams == {ArrayPattern(es) : es \in SubSeqsUpTo(ElemList, MaxProps)}

RestParams ==
    {RestElement(Identifier("args")),
     RestElement(TypedIdentifier("args", TSArrayType(TNumber)))}

PropertyParams ==
    {TSParameterProperty(TypedIdentifier("foo", TString)),
     TSParameterProperty(AssignmentPattern(Identifier("foo"), NumberLiteral(5)))}

ParamNodeSet ==
    SimpleParams \cup DefaultedParams \cup ObjectParams \cup ArrayParams
    \cup PropertyParams

\* the parameters that accompany any other one in a longer list
CommonParams ==
    {Identifier("x"), Identifier("params"), InnerObject}

\* parameter lists: at most one parameter is not a common one, and a rest
\* element is the last parameter
ParamLists ==
    LET common == SeqsUpTo(CommonParams, MaxParams)
        plain == common \cup
                 UNION {{before \o <<p>> \o after :
                            p \in ParamNodeSet,
                            after \in {q \in common : Len(before) + Len(q) < MaxParams}} :
                           before \in {q \in common : Len(q) < MaxParams}}
    IN  plain \cup {Append(q, r) : q \in {x \in plain : Len(x) < MaxParams}, r \in RestParams}

BlockStatement(stmts) == [type |-> "BlockStatement", body |-> stmts]

ReturnStatement(arg) == [type |-> "ReturnStatement", argument |-> arg]

\* return;
BareReturn == [type |-> "ReturnStatement"]

InnerFunction ==
    [type |-> "FunctionDeclaration", id |-> Identifier("inner"), params |-> <<>>,
     body |-> BlockStatement(<<ReturnStatement(NumberLiteral(1))>>)]

StmtNodes ==
    {BareReturn,
     ReturnStatement(NumberLiteral(5)),
     ReturnStatement(ArrayExpression),
     ReturnStatement(ObjectExpression(<<>>)),
     ReturnStatement(BinaryExpression),
     [type |-> "IfStatement", consequent |-> ReturnStatement(BooleanLiteral(TRUE))],
     [type |-> "ExpressionStatement", expression |-> BinaryExpression],
     InnerFunction}

Blocks == {BlockStatement(q) : q \in SeqsUpTo(StmtNodes, MaxStmts)}

\* the expression body of a concise arrow function
ConciseBodies == {NumberLiteral(5), BinaryExpression, Identifier("y")}

ReturnTypes == {NoNode, [type |-> "TSTypeAnnotation", typeAnnotation |-> TNumber],
                [type |-> "TSTypeAnnotation", typeAnnotation |-> TSKeyword("TSVoidKeyword")]}

FunctionNode(t, named, ps, b, rt) ==
    LET base == [type |-> t, params |-> ps, body |-> b]
        withId == IF named THEN SetField(base, "id", Identifier("test")) ELSE base
    IN  IF rt = NoNode THEN withId ELSE SetField(withId, "returnType", rt)

\* functions that vary in their parameter list
ParamRichNodes ==
    {FunctionNode("FunctionDeclaration", TRUE, ps,
                  BlockStatement(<<ReturnStatement(BinaryExpression)>>), NoNode) :
        ps \in ParamLists}

\* functions that vary in their body and return annotation
BodyRichNodes ==
    {FunctionNode(t, t = "FunctionDeclaration", ps, b, rt) :
        t \in {"FunctionDeclaration", "FunctionExpression", "ArrowFunctionExpression"},
        ps \in {<<>>, <<Identifier("a")>>},
        b \in Blocks, rt \in ReturnTypes}
    \cup {FunctionNode("ArrowFunctionExpression", FALSE, ps, b, rt) :
        ps \in {<<>>, <<Identifier("a")>>}, b \in ConciseBodies, rt \in ReturnTypes}

\* a class method handed over as the MethodDefinition itself
MethodNodes ==
    {[type |-> "MethodDefinition", key |-> Identifier("m"),
      value |-> FunctionNode("FunctionExpression", FALSE, ps, b, NoNode)] :
        ps \in {<<>>, <<Identifier("a")>>},
        b \in {BlockStatement(<<>>), BlockStatement(<<ReturnStatement(NumberLiteral(5))>>)}}

FunctionNodes == ParamRichNodes \cup BodyRichNodes \cup MethodNodes

LineTexts ==
    {"", "  ", "// c", "/**", " * c", " */", "/* c */", "x();"}

\* the line a function starts on
FunctionLine == "function test() {}"

\* a source text: some lines, then the line the function starts on
Sources ==
    {Join(Append(q, FunctionLine), "\n") : q \in SeqsUpTo(LineTexts, MaxLines - 1)}

LocNode(line) == [type |-> "FunctionDeclaration", loc |-> [start |-> [line |-> line]]]

(***************************************************************************)
(* The param-utils entry points as a state machine                         *)
(***************************************************************************)

IdleDetector == code = "" /\ hcNode = NoNode /\ hc = "idle"

IdleFile ==
    /\ file = NoNode /\ matched = <<>> /\ options = NoNode /\ result = NoNode
    /\ writes = <<>> /\ dirs = {} /\ stderr = <<>> /\ stdout = <<>> /\ status = -1

IdleBatch == batch = <<>> /\ lastIndex = 1 /\ outputs = <<>>

IdleType == typeNode = NoNode /\ fallback = "any" /\ typeText = UNDEF

\* only the TypeScript traversal hands over a MethodDefinition itself; an
\* example is asked for of functions with at most one parameter whose body is
\* empty or the single statement return a + b
Init ==
    /\ node \in FunctionNodes
    /\ isTypeScript \in IF node.type = "MethodDefinition" THEN {TRUE} ELSE BOOLEAN
    /\ example \in IF /\ Len(ParamNodes(node)) <= 1
                       /\ Field(node, "body") \in
                              {BlockStatement(<<>>),
                               BlockStatement(<<ReturnStatement(BinaryExpression)>>)}
                    THEN BOOLEAN ELSE {FALSE}
    /\ pc = "start"
    /\ params = <<>>
    /\ returnType = UNDEF
    /\ doc = ""
    /\ thrown = FALSE
    /\ IdleDetector
    /\ IdleFile
    /\ IdleBatch
    /\ IdleType

\* the name the caller hands over: the TypeScript traversal names a method
\* by its key, a direct call gives none
NameArg(n) == IF n # NoNode /\ n.type = "MethodDefinition" THEN n.key.name ELSE UNDEF

ExtractParams ==
    /\ pc = "start"
    /\ IF extractParamsThrows(node)
       THEN thrown' = TRUE /\ params' = params
       ELSE thrown' = thrown /\ params' = extractParams(node, isTypeScript)
    /\ pc' = "extractParams"
    /\ UNCHANGED <<node, isTypeScript, example, returnType, doc, detVars, fileVars, batchVars, typeVars>>

GetReturnType ==
    /\ pc = "start"
    /\ IF getReturnTypeThrows(node, isTypeScript)
       THEN thrown' = TRUE /\ returnType' = returnType
       ELSE thrown' = thrown /\ returnType' = getReturnType(node, isTypeScript)
    /\ pc' = "getReturnType"
    /\ UNCHANGED <<node, isTypeScript, example, params, doc, detVars, fileVars, batchVars, typeVars>>

GenerateParamDocs ==
    /\ pc = "start"
    /\ doc' = generateParamDocs(node, isTypeScript, example, NameArg(node))
    /\ pc' = "generateParamDocs"
    /\ UNCHANGED <<node, isTypeScript, example, params, returnType, thrown,
                   detVars, fileVars, batchVars, typeVars>>

Next == ExtractParams \/ GetReturnType \/ GenerateParamDocs

Spec == Init /\ [][Next]_vars

\* generateParamDocs on its own: the calls that render a comment
NextDocs == GenerateParamDocs

SpecDocs == Init /\ [][NextDocs]_vars

(***************************************************************************)
(* hasComment as a state machine                                           *)
(***************************************************************************)

IdleParams ==
    /\ node = NoNode /\ isTypeScript = FALSE /\ example = FALSE /\ pc = "start"
    /\ params = <<>> /\ returnType = UNDEF /\ doc = ""

\* the node starts on the last line of the text; a node may carry no loc
InitDetector ==
    /\ code \in Sources
    /\ hcNode \in {LocNode(Len(Split(code, "\n"))), [type |-> "FunctionDeclaration"]}
    /\ hc = "idle"
    /\ thrown = FALSE
    /\ IdleParams
    /\ IdleFile
    /\ IdleBatch
    /\ IdleType

HasComment ==
    /\ hc = "idle"
    /\ IF hasCommentThrows(hcNode, code)
       THEN thrown' = TRUE /\ hc' = "thrown"
       ELSE /\ thrown' = thrown
            /\ hc' = IF hasComment(hcNode, code) THEN "true" ELSE "false"
    /\ UNCHANGED <<coreVars, code, hcNode, fileVars, batchVars, typeVars>>

NextDetector == HasComment

SpecDetector == InitDetector /\ [][NextDetector]_vars

(***************************************************************************)
(* The entry points on whatever a caller hands them                        *)
(***************************************************************************)

\* null, an arrow function that lost its body, and two well-formed functions
\* and a function whose body holds x as any
AnyNodes ==
    {NoNode,
     [type |-> "ArrowFunctionExpression", params |-> <<Identifier("a")>>],
     FunctionNode("FunctionDeclaration", TRUE, <<Identifier("a")>>,
                  BlockStatement(<<ReturnStatement(NumberLiteral(5))>>), NoNode),
     FunctionNode("ArrowFunctionExpression", FALSE, <<>>, NumberLiteral(5), NoNode),
     FunctionNode("FunctionDeclaration", TRUE, <<Identifier("x")>>,
                  BlockStatement(<<ReturnStatement([type |-> "TSAsExpression"])>>), NoNode)}

\* hasComment is handed a short text and null, a node without loc, or a
\* node on a line of the text, just below it, or further down
InitAny ==
    /\ node \in AnyNodes
    /\ isTypeScript \in BOOLEAN
    /\ example = FALSE
    /\ pc = "start"
    /\ params = <<>>
    /\ returnType = UNDEF
    /\ doc = ""
    /\ code \in {Join(q, "\n") : q \in SeqsUpTo({"", "// c", FunctionLine}, MaxStmts)}
    /\ hcNode \in {NoNode, [type |-> "FunctionDeclaration"]}
                     \cup {LocNode(l) : l \in 1..(Len(Split(code, "\n")) + 2)}
    /\ hc = "idle"
    /\ thrown = FALSE
    /\ IdleFile
    /\ IdleBatch
    /\ IdleType

\* param-utils' generateFunctionComment: extractParams runs before the try
\* of generateParamDocs
GenerateFunctionComment ==
    /\ pc = "start"
    /\ IF extractParamsThrows(node)
       THEN thrown' = TRUE /\ doc' = doc
       ELSE thrown' = thrown /\ doc' = generateFunctionComment(node, isTypeScript, NameArg(node))
    /\ pc' = "generateFunctionComment"
    /\ UNCHANGED <<node, isTypeScript, example, params, returnType, detVars, fileVars, batchVars, typeVars>>

NextAny ==
    \/ ExtractParams
    \/ GetReturnType
    \/ GenerateParamDocs
    \/ GenerateFunctionComment
    \/ HasComment

SpecAny == InitAny /\ [][NextAny]_vars

\* C11: no exception escapes extractParams, getReturnType, generateParamDocs,
\* generateFunctionComment or hasComment, whatever node they are handed,
\* null and malformed nodes included.
C11_NoExceptionEscapes == ~thrown

(***************************************************************************)
(* getTSType on its own                                                    *)
(***************************************************************************)

\* most member types of a union or an intersection
MaxTypes == 2

TSIntersectionType(ts) == [type |-> "TSIntersectionType", types |-> ts]

\* the literal type of a value: 5, "x", or a template literal, which has no
\* value
TSLiteralType(l) == [type |-> "TSLiteralType", literal |-> l]

\* ns.T
QualifiedReference ==
    [type |-> "TSTypeReference",
     typeName |-> [type |-> "TSQualifiedName",
                   left |-> Identifier("ns"), right |-> Identifier("T")]]

\* type nodes without member types
SimpleTypes ==
    {TSKeyword(k) : k \in {"TSStringKeyword", "TSNumberKeyword", "TSBooleanKeyword",
                           "TSVoidKeyword", "TSAnyKeyword", "TSUnknownKeyword",
                           "TSNullKeyword"}}
    \cup {TSTypeReference("Foo"), QualifiedReference,
          TSLiteralType(NumberLiteral(5)), TSLiteralType(StringLiteral("x")),
          TSLiteralType([type |-> "TemplateLiteral"]),
          ObjectPattern(<<>>), ArrayPattern(<<>>)}

\* the sequences over S of length 2..n
Members(S, n) == {q \in SeqsUpTo(S, n) : Len(q) >= 2}

\* type nodes: simple ones, arrays of them, unions and intersections of
\* them, an array of a union, and an annotation that wraps a simple one
TypeNodes ==
    SimpleTypes
    \cup {TSArrayType(t) : t \in SimpleTypes}
    \cup {TSUnionType(q) : q \in Members(SimpleTypes, MaxTypes)}
    \cup {TSIntersectionType(q) : q \in Members(SimpleTypes, MaxTypes)}
    \cup {TSArrayType(TSUnionType(<<TString, t>>)) : t \in SimpleTypes}
    \cup {[type |-> "TSTypeAnnotation", typeAnnotation |-> t] : t \in SimpleTypes}

InitType ==
    /\ typeNode \in TypeNodes
    /\ fallback \in {"any", "Object"}
    /\ typeText = UNDEF
    /\ thrown = FALSE
    /\ IdleParams
    /\ IdleDetector
    /\ IdleFile
    /\ IdleBatch

GetTSType ==
    /\ typeText = UNDEF
    /\ typeText' = getTSType(typeNode, fallback)
    /\ UNCHANGED <<coreVars, detVars, thrown, fileVars, batchVars, typeNode, fallback>>

NextType == GetTSType

SpecType == InitType /\ [][NextType]_vars

\* the name a primitive keyword node stands for; UNDEF for another node
KeywordName(t) ==
    CASE t.type = "TSStringKeyword"  -> "string"
      [] t.type = "TSNumberKeyword"  -> "number"
      [] t.type = "TSBooleanKeyword" -> "boolean"
      [] t.type = "TSVoidKeyword"    -> "void"
      [] t.type = "TSAnyKeyword"     -> "any"
      [] t.type = "TSUnknownKeyword" -> "unknown"
      [] OTHER -> UNDEF

\* the structural mapping as stated: t is a type node, d the fallback; an
\* element type is inferred with the default fallback any
RECURSIVE Structural(_, _)
Structural(t, d) ==
    IF KeywordName(t) # UNDEF THEN KeywordName(t)
    ELSE CASE t.type = "TSTypeAnnotation" -> Structural(t.typeAnnotation, d)
           [] t.type = "TSArrayType" -> "Array<" \o Structural(t.elementType, "any") \o ">"
           [] t.type = "TSTypeReference" ->
                 IF Has(t.typeName, "name") THEN t.typeName.name
                 ELSE t.typeName.left.name \o "." \o t.typeName.right.name
           [] t.type = "TSUnionType" ->
                 Join([i \in 1..Len(t.types) |-> Structural(t.types[i], d)], " | ")
           [] t.type = "TSIntersectionType" ->
                 Join([i \in 1..Len(t.types) |-> Structural(t.types[i], d)], " & ")
           [] t.type = "TSLiteralType" /\ Has(t.literal, "value") -> t.literal.value.t
           [] t.type = "ObjectPattern" -> "Object"
           [] t.type = "ArrayPattern" -> "Array"
           [] OTHER -> d

\* C23: getTSType maps every type node structurally: a primitive keyword to
\* string, number, boolean, void, any or unknown, an array type to Array<
\* element type >, a reference to its name (a qualified one joined with .), a
\* union to its members joined with " | ", an intersection with " & ", a
\* literal type to the runtime type of the literal, ObjectPattern and
\* ArrayPattern to Object and Array, and every other node to the fallback.
C23_StructuralMapping ==
    typeText # UNDEF => typeText = Structural(typeNode, fallback)

(***************************************************************************)
(* A run of calls of extractParams and generateParamDocs                   *)
(***************************************************************************)

\* most calls in a run
MaxBatch == 3

\* functions with and without destructured parameters, and one whose first
\* parameter is called param1
BatchNodes ==
    {FunctionNode("FunctionDeclaration", TRUE, ps, BlockStatement(<<>>), NoNode) :
        ps \in {<<Identifier("x")>>,
                <<InnerObject>>,
                <<Identifier("a"), InnerArray>>,
                <<InnerObject, InnerArray>>,
                <<Identifier("param1"), InnerObject>>}}

InitBatch ==
    /\ batch \in SeqsUpTo(BatchNodes, MaxBatch) \ {<<>>}
    /\ lastIndex = 1
    /\ outputs = <<>>
    /\ node = NoNode
    /\ isTypeScript \in BOOLEAN
    /\ example = FALSE
    /\ pc = "start"
    /\ params = <<>>
    /\ returnType = UNDEF
    /\ doc = ""
    /\ thrown = FALSE
    /\ IdleDetector
    /\ IdleFile
    /\ IdleType

\* what a call leaves behind: the node as it was handed over, the node as it
\* is when the call returns (no statement of param-utils assigns to a node),
\* and the value returned
Output(call, fn, value) == [call |-> call, given |-> fn, node |-> fn, value |-> value]

\* extractParams(Head(batch), isTypeScript)
ExtractNext ==
    /\ batch # <<>>
    /\ outputs' = Append(outputs,
                     Output("extractParams", Head(batch),
                            ExtractFrom(ParamNodes(Head(batch)), isTypeScript,
                                        FirstIndex(lastIndex))))
    /\ lastIndex' = IndexAfter(ParamNodes(Head(batch)), isTypeScript, FirstIndex(lastIndex))
    /\ batch' = Tail(batch)
    /\ UNCHANGED <<coreVars, detVars, thrown, fileVars, typeVars>>

\* generateParamDocs(Head(batch), {isTypeScript}), which calls extractParams
DocumentNext ==
    /\ batch # <<>>
    /\ outputs' = Append(outputs,
                     Output("generateParamDocs", Head(batch),
                            DocumentWith(Head(batch), isTypeScript,
                                         ExtractFrom(ParamNodes(Head(batch)), isTypeScript,
                                                     FirstIndex(lastIndex)),
                                         NameArg(Head(batch)))))
    /\ lastIndex' = IndexAfter(ParamNodes(Head(batch)), isTypeScript, FirstIndex(lastIndex))
    /\ batch' = Tail(batch)
    /\ UNCHANGED <<coreVars, detVars, thrown, fileVars, typeVars>>

NextBatch == ExtractNext \/ DocumentNext

SpecBatch == InitBatch /\ [][NextBatch]_vars

\* what the call recorded in o returns when it is the only call made
Alone(o) ==
    IF o.call = "extractParams" THEN extractParams(o.given, isTypeScript)
    ELSE generateParamDocs(o.given, isTypeScript, FALSE, NameArg(o.given))

\* the first parameter of o.given that gets a synthetic name; 0 when an
\* identifier called param... comes first or there is none
FirstSynthetic(o) ==
    Least({i \in 1..Len(o.given.params) :
              /\ o.given.params[i].type \in {"ObjectPattern", "ArrayPattern"}
              /\ \A j \in 1..(i - 1) : ~StartsWith(o.value[j].name, "param")})

FunctionOnLine(text) ==
    CASE text = "function add(a, b) { return a + b; }" ->
            [type |-> "FunctionDeclaration", id |-> Identifier("add"),
             params |-> <<Identifier("a"), Identifier("b")>>,
             body |-> BlockStatement(<<ReturnStatement(BinaryExpression)>>)]
      [] text = "function g(x) {}" ->
            [type |-> "FunctionDeclaration", id |-> Identifier("g"),
             params |-> <<Identifier("x")>>, body |-> BlockStatement(<<>>)]
      [] text = "function h(x) { return x as any; }" ->
            [type |-> "FunctionDeclaration", id |-> Identifier("h"),
             params |-> <<Identifier("x")>>,
             body |-> BlockStatement(<<ReturnStatement(
                          [type |-> "TSAsExpression", expression |-> Identifier("x")])>>)]
      [] OTHER -> NoNode

\* a line the TypeScript parser rejects
BrokenLine == "function ( {"

\* the end of a block comment that a line of code may follow on its line
CommentEnd == " */"

\* a line without the end of a comment it starts with
CodeOf(text) ==
    IF StartsWith(text, CommentEnd)
    THEN SubSeq(text, Len(CommentEnd) + 1, Len(text))
    ELSE text

\* a class with one method; the parser gives the MethodDefinition the range
\* of m(a) {} and its value, a FunctionExpression, the range of (a) {}
ClassLine == "class A { m(a) {} }"

MethodValue ==
    [type |-> "FunctionExpression", params |-> <<Identifier("a")>>,
     body |-> BlockStatement(<<>>)]

MethodColumn == 10

\* the visits of the walk that end in generateFunctionComment on a line, in
\* the order of the walk: the function handed over, the name handed over and
\* the column the visited node starts at. A declaration is visited once; the
\* value of a method is visited as FunctionExpression and then the method
\* itself as MethodDefinition
VisitsOnLine(text) ==
    IF CodeOf(text) = ClassLine
    THEN <<[fn |-> MethodValue, name |-> UNDEF,
            column |-> Len(text) - Len(ClassLine) + MethodColumn + 1],
           [fn |-> MethodValue, name |-> "m",
            column |-> Len(text) - Len(ClassLine) + MethodColumn]>>
    ELSE IF FunctionOnLine(CodeOf(text)) # NoNode
    THEN <<[fn |-> FunctionOnLine(CodeOf(text)),
            name |-> FunctionOnLine(CodeOf(text)).id.name,
            column |-> Len(text) - Len(CodeOf(text))]>>
    ELSE <<>>

\* the visited functions of the lines from line i on: the node, the name,
\* the line the visited node starts on (loc.start.line) and the offset it
\* starts at (range[0])
RECURSIVE VisitsFrom(_, _)
VisitsFrom(lines, i) ==
    IF i > Len(lines) THEN <<>>
    ELSE [k \in 1..Len(VisitsOnLine(lines[i])) |->
             [fn |-> VisitsOnLine(lines[i])[k].fn,
              name |-> VisitsOnLine(lines[i])[k].name,
              line |-> i,
              position |-> VisitsOnLine(lines[i])[k].column
                           + (IF i = 1 THEN 0
                              ELSE Len(Join(SubSeq(lines, 1, i - 1), "\n")) + 1)]]
         \o VisitsFrom(lines, i + 1)

FunctionsIn(lines) == VisitsFrom(lines, 1)

\* a test that looks at line one only
TopIsJSDocOnLineOne(lines) == StartsWith(Trim(lines[1]), "/**")

\* the first line that is not blank starts with /**
TopIsJSDoc(lines) ==
    \E i \in 1..Len(lines) :
        /\ StartsWith(Trim(lines[i]), "/**")
        /\ \A j \in 1..(i - 1) : Trim(lines[j]) = ""

\* processor.js' own generateFunctionComment: what generateParamDocs gives,
\* "" included
CommentFor(f, isTS) == generateParamDocs(f.fn, isTS, FALSE, f.name)

\* the comments the JavaScript walk collects, in its order: one for every
\* visited function without a comment above it whose comment is not ""; the
\* visited nodes start at different offsets, so none is dropped as a duplicate
commentsToInsert(src) ==
    LET found == FunctionsIn(Split(src, "\n"))
        bare == SelectSeq(found, LAMBDA f : ~hasComment(LocNode(f.line), src))
        made == [k \in 1..Len(bare) |->
                    [position |-> bare[k].position, text |-> CommentFor(bare[k], FALSE)]]
    IN  SelectSeq(made, LAMBDA c : c.text # "")

\* findFunctionNode reads ast.body[0].type of every node visitTSNode visits:
\* the body of a function is a block, not an array, body[0] is undefined and
\* the read throws a TypeError
TraversalThrows(src) == FunctionsIn(Split(src, "\n")) # <<>>

\* [...commentsToInsert].sort((a, b) => b.position - a.position): by
\* descending position, comments at one position in the order they had
RECURSIVE sortedComments(_)
sortedComments(cs) ==
    IF cs = <<>> THEN <<>>
    ELSE LET k == CHOOSE i \in 1..Len(cs) :
                      /\ \A j \in 1..Len(cs) : cs[j].position <= cs[i].position
                      /\ \A j \in 1..(i - 1) : cs[j].position < cs[i].position
         IN  <<cs[k]>> \o sortedComments(SubSeq(cs, 1, k - 1) \o SubSeq(cs, k + 1, Len(cs)))

\* the loop over the sorted comments: the text and the code up to
\* lastPosition go in front of the parts collected so far; parts is the
\* parts joined
RECURSIVE Spliced(_, _, _, _)
Spliced(src, sorted, parts, lastPosition) ==
    IF sorted = <<>> THEN SubSeq(src, 1, lastPosition) \o parts
    ELSE Spliced(src, Tail(sorted),
                 Head(sorted).text
                     \o SubSeq(src, Head(sorted).position + 1, lastPosition)
                     \o parts,
                 Head(sorted).position)

\* an insertion loop that takes the comments in the order of the walk
InsertCommentsUnsorted(src, cs) == Spliced(src, cs, "", Len(src))

\* newCode: the comments sorted and spliced into the code
InsertComments(src, cs) == Spliced(src, sortedComments(cs), "", Len(src))

\* what a call of processFile does: the object it resolves to and the calls
\* it made
Outcome(res, ws, ds, errs, outs) ==
    [result |-> res, writes |-> ws, dirs |-> ds, stderr |-> errs, stdout |-> outs]

\* a processFile that writes in a dry run too
FinishAlwaysWrites(f, opts, cs, outputPath) ==
    Outcome([commentsAdded |-> Len(cs), skipped |-> FALSE, filePath |-> outputPath,
             exitCode |-> 0],
            <<[path |-> outputPath, text |-> InsertComments(f.text, cs)]>>,
            IF opts.output # UNDEF THEN {opts.output} ELSE {},
            <<>>,
            <<>>)

\* processFile from the fallback comment on: the text is built, the output
\* directory made, and the text written or, in a dry run, printed
Finish(f, opts, cs, outputPath) ==
    Outcome([commentsAdded |-> Len(cs), skipped |-> FALSE, filePath |-> outputPath,
             exitCode |-> 0],
            IF opts.dryRun THEN <<>>
            ELSE <<[path |-> outputPath, text |-> InsertComments(f.text, cs)]>>,
            IF opts.output # UNDEF THEN {opts.output} ELSE {},
            <<>>,
            IF opts.dryRun
            THEN <<"(dry run) " \o f.path, InsertComments(f.text, cs)>>
            ELSE <<>>)

\* the comments found, or the fallback comment at the top of the file
OrFallback(cs) ==
    IF cs = <<>> THEN <<[position |-> 0, text |-> FallbackComment \o "\n"]>> ELSE cs

\* path.basename(p): what follows the last / of p
Basename(p) ==
    LET slashes == {i \in 1..Len(p) : SubSeq(p, i, i) = "/"}
    IN  IF slashes = {} THEN p
        ELSE SubSeq(p, (CHOOSE i \in slashes : \A j \in slashes : j <= i) + 1, Len(p))

ParseFailed(f) == "Error: parsing failed for file: " \o f.path \o "\n<code frame>"

\* f.text is UNDEF when nothing can be read at f.path; the texts are far
\* below the size that earns the performance warning
processFile(f, opts) ==
    IF f.text = UNDEF
    THEN Outcome([error |-> "Error: File not found: " \o f.path, filePath |-> f.path,
                  skipped |-> FALSE, exitCode |-> 1,
                  stderr |-> "Error: File not found: " \o f.path],
                 <<>>, {}, <<"Error: File not found: " \o f.path>>, <<>>)
    ELSE IF TopIsJSDoc(Split(f.text, "\n"))
    THEN Outcome([commentsAdded |-> 0, skipped |-> TRUE, exitCode |-> 0],
                 <<>>, {}, <<>>, <<>>)
    ELSE IF Trim(f.text) = ""
    THEN Outcome([commentsAdded |-> 0, skipped |-> TRUE, exitCode |-> 0],
                 <<>>, {}, <<>>,
                 IF opts.dryRun THEN <<"(no changes needed)\n">> ELSE <<>>)
    ELSE IF EndsWith(f.path, ".ts")
    THEN IF \E i \in 1..Len(Split(f.text, "\n")) : Split(f.text, "\n")[i] = BrokenLine
         THEN Outcome([error |-> ParseFailed(f), filePath |-> f.path,
                       skipped |-> ~opts.exitOnError,
                       exitCode |-> IF opts.exitOnError THEN 1 ELSE 0,
                       stderr |-> ParseFailed(f)],
                      <<>>, {}, <<ParseFailed(f)>>, <<>>)
         ELSE IF TraversalThrows(f.text)
         THEN Outcome([error |-> "Cannot read properties of undefined (reading 'type')",
                       filePath |-> f.path, exitCode |-> 1],
                      <<>>, {}, <<>>, <<>>)
         ELSE Finish(f, opts, OrFallback(<<>>),
                     IF opts.output # UNDEF THEN opts.output \o "/" \o Basename(f.path) ELSE f.path)
    ELSE Finish(f, opts, OrFallback(commentsToInsert(f.text)),
                IF opts.output # UNDEF THEN opts.output \o "/" \o Basename(f.path) ELSE f.path)

(***************************************************************************)
(* processFile as a state machine                                          *)
(***************************************************************************)

\* a JavaScript or a TypeScript file of a few lines, or a path with nothing
\* to read; only the TypeScript parser is handed x as any and a line it rejects
Files ==
    {[path |-> "a.js", text |-> Join(q, "\n")] :
        q \in SeqsUpTo({"", "// note", "/** doc */", "const x = 1;",
                        "function add(a, b) { return a + b; }", "function g(x) {}",
                        ClassLine},
                       MaxLines - 1) \ {<<>>}}
    \cup {[path |-> "a.ts", text |-> Join(q, "\n")] :
        q \in SeqsUpTo({"", "/** doc */", "const x = 1;",
                        "function add(a, b) { return a + b; }",
                        "function h(x) { return x as any; }", BrokenLine},
                       MaxLines - 1) \ {<<>>}}
    \cup {[path |-> "a.js", text |-> UNDEF], [path |-> "a.ts", text |-> UNDEF]}

OptionSets ==
    [dryRun : BOOLEAN, output : {UNDEF, "out"}, exitOnError : BOOLEAN]

Unstarted ==
    /\ result = NoNode /\ writes = <<>> /\ dirs = {} /\ stderr = <<>> /\ stdout = <<>>
    /\ status = -1
    /\ thrown = FALSE
    /\ IdleParams
    /\ IdleDetector
    /\ IdleBatch
    /\ IdleType

InitFile ==
    /\ file \in Files
    /\ options \in OptionSets
    /\ matched = <<>>
    /\ Unstarted

\* the call returns: its result and the calls it made become visible
Returned(o) ==
    /\ result' = o.result
    /\ writes' = writes \o o.writes
    /\ dirs' = dirs \cup o.dirs
    /\ stderr' = stderr \o o.stderr
    /\ stdout' = stdout \o o.stdout

ProcessFile ==
    /\ file # NoNode
    /\ result = NoNode
    /\ Returned(processFile(file, options))
    /\ UNCHANGED <<coreVars, detVars, thrown, file, matched, options, status, batchVars, typeVars>>

NextFile == ProcessFile

SpecFile == InitFile /\ [][NextFile]_vars

(***************************************************************************)
(* processFile run again on the file it wrote                              *)
(***************************************************************************)

\* the files whose output the parser model reads back: every line of it is
\* a line of the file, a line of a comment, or a function after a comment end
InitAgain ==
    /\ InitFile
    /\ file.text # UNDEF => \A i \in 1..Len(Split(file.text, "\n")) :
                                Split(file.text, "\n")[i] # ClassLine

\* the second run: processFile is handed the file the first run wrote
ProcessAgain ==
    /\ result # NoNode
    /\ Len(writes) = 1
    /\ file # writes[1]
    /\ file' = writes[1]
    /\ Returned(processFile(writes[1], options))
    /\ UNCHANGED <<coreVars, detVars, thrown, matched, options, status, batchVars, typeVars>>

NextAgain == ProcessFile \/ ProcessAgain

SpecAgain == InitAgain /\ [][NextAgain]_vars

(***************************************************************************)
(* processor.js: processFiles, and bin/code-commenter.js                   *)
(***************************************************************************)

MaxFiles == 2

\* processFiles counts a result as an error, else as skipped, else as processed
Errored(res) == Has(res, "error") /\ res.exitCode = 1

\* the counts and the calls made so far, with one more file processed
Tally(acc, o) ==
    [processed |-> acc.processed
                     + (IF ~Errored(o.result) /\ ~BoolField(o.result, "skipped")
                        THEN 1 ELSE 0),
     skipped |-> acc.skipped
                     + (IF ~Errored(o.result) /\ BoolField(o.result, "skipped")
                        THEN 1 ELSE 0),
     errors |-> acc.errors + (IF Errored(o.result) THEN 1 ELSE 0),
     errorMessages |-> acc.errorMessages
                     \o (IF Errored(o.result) /\ Has(o.result, "stderr")
                         THEN <<o.result.stderr>> ELSE <<>>),
     writes |-> acc.writes \o o.writes,
     dirs |-> acc.dirs \cup o.dirs,
     stderr |-> acc.stderr \o o.stderr,
     stdout |-> acc.stdout \o o.stdout]

\* a loop that gives up at the first file counted as an error
RECURSIVE ProcessAllUntilError(_, _, _)
ProcessAllUntilError(files, opts, acc) ==
    IF files = <<>> \/ acc.errors > 0 THEN acc
    ELSE ProcessAllUntilError(Tail(files), opts,
                              Tally(acc, processFile(Head(files), opts)))

RECURSIVE ProcessAll(_, _, _)
ProcessAll(files, opts, acc) ==
    IF files = <<>> THEN acc
    ELSE ProcessAll(Tail(files), opts, Tally(acc, processFile(Head(files), opts)))

\* the statistics processFiles resolves to once every file is processed
Statistics(acc) ==
    Outcome([processed |-> acc.processed, skipped |-> acc.skipped,
             errors |-> acc.errors,
             exitCode |-> IF acc.errors > 0 THEN 1 ELSE 0,
             stderr |-> IF acc.errorMessages # <<>>
                        THEN Join(acc.errorMessages, "\n") ELSE UNDEF],
            acc.writes, acc.dirs, acc.stderr, acc.stdout)

\* files is what glob finds for the patterns; no configuration file is present
processFiles(files, opts) ==
    IF files = <<>>
    THEN Outcome([processed |-> 0, skipped |-> 0, errors |-> 1, exitCode |-> 1,
                  stderr |-> "Error: No files found matching the patterns"],
                 <<>>, {}, <<>>, <<>>)
    ELSE Statistics(ProcessAll(files, opts,
                               [processed |-> 0, skipped |-> 0, errors |-> 0,
                                errorMessages |-> <<>>, writes |-> <<>>, dirs |-> {},
                                stderr |-> <<>>, stdout |-> <<>>]))

\* the files a pattern can match: one with two functions, one whose function
\* is documented, one without functions, a TypeScript file that does not
\* parse and one that does
CliFiles ==
    {[path |-> "add.js", text |-> "function add(a, b) { return a + b; }\nfunction g(x) {}"],
     [path |-> "doc.js", text |-> "// note\nfunction g(x) {}"],
     [path |-> "top.js", text |-> "/** doc */\nconst x = 1;"],
     [path |-> "bad.ts", text |-> BrokenLine],
     [path |-> "x.ts", text |-> "const x = 1;"]}

\* at least one pattern is given; glob lists a file once
InitCli ==
    /\ matched \in {q \in SeqsUpTo(CliFiles, MaxFiles) :
                       \A i, j \in 1..Len(q) : q[i] = q[j] => i = j}
    /\ options \in OptionSets
    /\ file = NoNode
    /\ Unstarted

\* program.action: processFiles never rejects, and whatever it resolves to
\* the process exits with status 0
RunCli ==
    /\ status = -1
    /\ file = NoNode
    /\ Returned(processFiles(matched, options))
    /\ status' = 0
    /\ UNCHANGED <<coreVars, detVars, thrown, file, matched, options, batchVars, typeVars>>

NextCli == RunCli

SpecCli == InitCli /\ [][NextCli]_vars

(***************************************************************************)
(* Properties                                                              *)
(***************************************************************************)

\* the lines of the text handed to hasComment
SourceLines == Split(code, "\n")

\* the 1-based number of the line immediately above the node (0: none)
LineAbove == IF Has(hcNode, "loc") THEN hcNode.loc.start.line - 1 ELSE 0

\* lines k..i hold a block comment that opens with /** on line k, closes at
\* the end of line i and has no blank line inside
BlockCommentOver(k, i) ==
    /\ 1 <= k /\ k < i
    /\ StartsWith(Trim(SourceLines[k]), "/**")
    /\ EndsWith(Trim(SourceLines[i]), "*/")
    /\ \A j \in k..i : Trim(SourceLines[j]) # ""

\* C1: hasComment decides from the line immediately above the node: a line
\* whose trimmed text starts with // gives true; a blank line gives false,
\* also when a complete block comment ends two lines above; a multi-line
\* /** ... */ block without a blank line that ends on that line gives true.
C1_AdjacentLineDecides ==
    (hc # "idle" /\ LineAbove >= 1) =>
        /\ StartsWith(Trim(SourceLines[LineAbove]), "//") => hc = "true"
        /\ Trim(SourceLines[LineAbove]) = "" => hc = "false"
        /\ (\E k \in 1..LineAbove : BlockCommentOver(k, LineAbove)) => hc = "true"

\* C1 witness: a blank line above the node, a complete block comment ending
\* two lines above, and the verdict false
C1_Witness ==
    /\ hc = "false"
    /\ LineAbove >= 3
    /\ Trim(SourceLines[LineAbove]) = ""
    /\ BlockCommentOver(LineAbove - 2, LineAbove - 1)

\* line k holds a block-comment opener and no line from there down to line
\* i is blank
OpenerReaches(k, i) ==
    /\ Includes(SourceLines[k], "/*")
    /\ \A j \in k..i : Trim(SourceLines[j]) # ""

\* the trimmed line immediately above the node
TextAbove == Trim(SourceLines[LineAbove])

\* C22: when the line immediately above the node ends with */ (and does not
\* start with //), hasComment reports a comment exactly if a line with a
\* block-comment opener is found going up from that line before a blank line
\* and before the top of the file; a line above that is not blank, does not
\* start with // and does not end with */ reports no comment.
C22_BlockScanStopsAtBlank ==
    (hc # "idle" /\ LineAbove >= 1 /\ ~StartsWith(TextAbove, "//")) =>
        /\ EndsWith(TextAbove, "*/") =>
              (hc = "true" <=> \E k \in 1..LineAbove : OpenerReaches(k, LineAbove))
        /\ (TextAbove # "" /\ ~EndsWith(TextAbove, "*/")) => hc = "false"

\* C22 witness: the line above closes a block comment whose opener lies
\* beyond a blank line, and the verdict is false
C22_Witness ==
    /\ hc = "false"
    /\ LineAbove >= 3
    /\ EndsWith(TextAbove, "*/")
    /\ Trim(SourceLines[LineAbove - 1]) = ""
    /\ Includes(SourceLines[LineAbove - 2], "/*")

\* the pattern a TSParameterProperty wraps, or the pattern itself
Unwrap(pat) == IF pat.type = "TSParameterProperty" THEN pat.parameter ELSE pat

\* the binding target of a pattern: what is left of its default, if any
Target(pat) ==
    IF Unwrap(pat).type = "AssignmentPattern" THEN Unwrap(pat).left ELSE Unwrap(pat)

IsDefaulted(pat) == Unwrap(pat).type = "AssignmentPattern"

DefaultOf(pat) == Unwrap(pat).right

IsAnnotated(pat) == Field(Target(pat), "typeAnnotation") # NoNode

IsPrimitiveLiteral(e) ==
    e.type = "Literal" /\ e.value.t \in {"number", "string", "boolean"}

\* the pattern an entry of an object pattern binds
BoundPattern(prop) == IF prop.type = "Property" THEN prop.value ELSE prop

\* the pairs <<pattern node, Parameter extracted from it>> at and below
\* <<pat, par>>, following properties and elements in source order
RECURSIVE Pairs(_, _)
Pairs(pat, par) ==
    {<<pat, par>>}
    \cup (IF /\ Target(pat).type = "ObjectPattern" /\ Has(par, "properties")
             /\ Len(par.properties) = Len(Target(pat).properties)
          THEN UNION {Pairs(BoundPattern(Target(pat).properties[i]), par.properties[i]) :
                         i \in 1..Len(par.properties)}
          ELSE {})
    \cup (IF /\ Target(pat).type = "ArrayPattern" /\ Has(par, "elements")
          THEN UNION {Pairs(Target(pat).elements[i], par.elements[i]) :
                         i \in {j \in 1..Len(par.elements) : par.elements[j] # NoNode}}
          ELSE {})

\* every Parameter at and below par
RECURSIVE Descendants(_)
Descendants(par) ==
    {par}
    \cup (IF Has(par, "properties")
          THEN UNION {Descendants(par.properties[i]) : i \in 1..Len(par.properties)}
          ELSE {})
    \cup (IF Has(par, "elements")
          THEN UNION {Descendants(par.elements[i]) :
                         i \in {j \in 1..Len(par.elements) : par.elements[j] # NoNode}}
          ELSE {})

\* after extractParams: the pairs of the whole parameter list
ExtractedPairs ==
    UNION {Pairs(ParamNodes(node)[i], params[i]) : i \in 1..Len(params)}

\* after extractParams: every Parameter produced, at any depth
ExtractedParams == UNION {Descendants(params[i]) : i \in 1..Len(params)}

\* every Parameter below a top-level one
NestedParams ==
    UNION {Descendants(params[i]) \ {params[i]} : i \in 1..Len(params)}

Extracted == pc = "extractParams"

\* C2: a defaulted parameter, property or array element whose default is a
\* number, string or boolean literal and which has no type annotation is
\* extracted with hasDefault, the re-serialized literal as defaultValue and
\* the literal's runtime type as type.
C2_LiteralDefaultGivesType ==
    Extracted =>
        \A pp \in ExtractedPairs :
            (/\ IsDefaulted(pp[1]) /\ IsPrimitiveLiteral(DefaultOf(pp[1]))
             /\ ~IsAnnotated(pp[1])) =>
                /\ pp[2].hasDefault
                /\ StrField(pp[2], "defaultValue") = generate(DefaultOf(pp[1]))
                /\ pp[2].type = DefaultOf(pp[1]).value.t

\* C3: in a typed language a defaulted parameter or property that carries a
\* type annotation is extracted with the annotation's type.
C3_AnnotationBeatsDefault ==
    (Extracted /\ isTypeScript) =>
        \A pp \in ExtractedPairs :
            (IsDefaulted(pp[1]) /\ IsAnnotated(pp[1])) =>
                pp[2].type = getTSType(Target(pp[1]).typeAnnotation, "any")

IsDestructured(pat) == Target(pat).type \in {"ObjectPattern", "ArrayPattern"}

\* C4: the k-th top-level destructured parameter is named param<k>,
\* whatever the names of the simple parameters around it.
C4_SyntheticNamesCountDestructured ==
    Extracted =>
        \A i \in 1..Len(params) :
            IsDestructured(ParamNodes(node)[i]) =>
                params[i].name = "param" \o ToString(Cardinality(
                    {j \in 1..i : IsDestructured(ParamNodes(node)[j])}))

\* C5: no Parameter has both properties and elements; a Parameter of an
\* object pattern has no elements and one of an array pattern no properties.
C5_PropertiesXorElements ==
    Extracted =>
        /\ \A par \in ExtractedParams : ~(Has(par, "properties") /\ Has(par, "elements"))
        /\ \A pp \in ExtractedPairs :
            /\ Target(pp[1]).type = "ObjectPattern" => ~Has(pp[2], "elements")
            /\ Target(pp[1]).type = "ArrayPattern" => ~Has(pp[2], "properties")

\* C6: a Parameter produced from a rest element has isRest = true and
\* hasDefault = false, as a rest parameter, as the rest of an object pattern
\* and as the rest of an array pattern; no Parameter has both flags.
C6_RestHasNoDefault ==
    Extracted =>
        /\ \A pp \in ExtractedPairs :
            pp[1].type = "RestElement" => BoolField(pp[2], "isRest") /\ ~pp[2].hasDefault
        /\ \A par \in ExtractedParams : BoolField(par, "isRest") => ~par.hasDefault

\* C6 witness: a rest parameter after an object pattern that holds a rest
\* property, both extracted
C6_Witness ==
    /\ Extracted
    /\ \E pp \in ExtractedPairs : pp[1].type = "RestElement" /\ pp[2] \in NestedParams
    /\ \E i \in 1..Len(params) : ParamNodes(node)[i].type = "RestElement"

\* C7: every Parameter has a non-empty string as name, and the name of a
\* nested one is the local name, never a dotted path.
C7_NamesAreNonEmptyStrings ==
    Extracted =>
        /\ \A par \in ExtractedParams : par.name # UNDEF /\ par.name # ""
        /\ \A par \in NestedParams : ~Includes(par.name, ".")

Generated == pc = "generateParamDocs"

DocLines == Split(doc, "\n")

\* the rendered lines that start with the given tag
TagLines(tag) == SelectSeq(DocLines, LAMBDA l : StartsWith(l, " * " \o tag))

\* a rendered @param line without the note on an uninferred type
Core(line) ==
    IF EndsWith(line, " (Type could not be inferred)")
    THEN SubSeq(line, 1, Len(line) - Len(" (Type could not be inferred)"))
    ELSE line

\* the text of s after the first occurrence of p
After(s, p) == SubSeq(s, IndexOf(s, p) + Len(p), Len(s))

\* the local name a rendered @param line is about: the name between the
\* closing quotes, or for a rest line the name before the label, without
\* the dots of a rest element
Subject(line) ==
    LET core == Core(line)
    IN  IF EndsWith(core, " - Rest parameter")
        THEN LET named == After(core, "} ")
                 bare == SubSeq(named, 1, Len(named) - Len(" - Rest parameter"))
             IN  ReplaceFirst(bare, "...", "")
        ELSE LET quoted == IF Includes(core, " - Property '")
                           THEN After(core, " - Property '")
                           ELSE After(core, " - Parameter '")
             IN  ReplaceFirst(SubSeq(quoted, 1, Len(quoted) - 1), "...", "")

\* the local name a line about par would carry
LocalName(par) == ReplaceFirst(Tpl(par.name), "...", "")

IsLeaf(par) == ~Has(par, "properties") /\ ~Has(par, "elements")

\* the leaf Parameters at and below par, in rendering order
RECURSIVE Leaves(_)
RECURSIVE LeavesOfAll(_)
Leaves(par) ==
    IF IsLeaf(par) THEN <<par>>
    ELSE (IF Has(par, "properties") THEN LeavesOfAll(par.properties) ELSE <<>>)
         \o (IF Has(par, "elements") THEN LeavesOfAll(Present(par.elements)) ELSE <<>>)

LeavesOfAll(ps) ==
    IF Len(ps) = 0 THEN <<>> ELSE Leaves(Head(ps)) \o LeavesOfAll(Tail(ps))

\* the leaves of the parameter tree of the function being documented
NodeLeaves == LeavesOfAll(extractParams(node, isTypeScript))

\* C8: generateParamDocs renders exactly one @param line for every leaf
\* Parameter, whatever its identifier: for every name, the @param lines
\* about that name are as many as the leaves that carry it.
C8_OneLinePerLeaf ==
    Generated =>
        \A i \in 1..Len(NodeLeaves) :
            LET name == LocalName(NodeLeaves[i])
            IN  Len(SelectSeq(TagLines("@param"), LAMBDA l : Subject(l) = name))
                    = Len(SelectSeq(NodeLeaves, LAMBDA q : LocalName(q) = name))

\* every Parameter of the function being documented, at any depth
NodeParams ==
    LET ps == extractParams(node, isTypeScript)
    IN  UNION {Descendants(ps[i]) : i \in 1..Len(ps)}

Noted(line) == EndsWith(line, " (Type could not be inferred)")

\* a line about subject is about a Parameter of ps that is typed any exactly
\* if the line carries the note
NoteFollowsType(subject, noted, ps) ==
    \E q \in ps : LocalName(q) = subject /\ (noted <=> q.type = "any")

NotesFollowTypes(lines, ps) ==
    \A i \in 1..Len(lines) : NoteFollowsType(Subject(lines[i]), Noted(lines[i]), ps)

TopNames == ParamNames(extractParams(node, isTypeScript))

\* the name the function is known by: the one handed over, else its own
KnownName ==
    IF NameArg(node) # UNDEF THEN NameArg(node)
    ELSE IF Has(node, "id") THEN node.id.name
    ELSE UNDEF

\* the text of the rendered summary line
Summary == After(TagLines("@summary")[1], "@summary ")

AllNamesValid ==
    \A i \in 1..Len(TopNames) : TopNames[i] # UNDEF /\ isValidIdentifier(TopNames[i])

\* names are valid and not none: then the one summary line names them
SummaryNames(names, summaries) ==
    (/\ Len(names) >= 1
     /\ \A i \in 1..Len(names) : names[i] # UNDEF /\ isValidIdentifier(names[i])) =>
        /\ Len(summaries) = 1
        /\ After(summaries[1], "@summary ") =
              "Function" \o (IF KnownName # UNDEF THEN " " \o KnownName ELSE "")
                  \o (IF Len(names) = 1 THEN " with parameter '" ELSE " with parameters '")
                  \o Join(names, "', '") \o "'"

Placeholder == "TODO: Describe what this function does (auto-generated)"

\* C14: if any top-level parameter name fails the validity check, the
\* synthetic param<N> name of a destructured object or array parameter
\* included, the summary line is the placeholder
\* TODO: Describe what this function does (auto-generated).
C14_InvalidNameGivesPlaceholder ==
    (/\ Generated
     /\ \E i \in 1..Len(TopNames) :
            \/ TopNames[i] = UNDEF
            \/ ~isValidIdentifier(TopNames[i])
            \/ IsDestructured(ParamNodes(node)[i])) =>
        /\ Len(TagLines("@summary")) = 1
        /\ Summary = Placeholder

\* where the @example tag is rendered
ExamplePositions == {i \in 1..Len(DocLines) : DocLines[i] = " * @example"}

\* the rendered line below the @example tag
ExampleLine == DocLines[(CHOOSE i \in ExamplePositions : TRUE) + 1]

\* C15: when an example is requested, the rendered example is a call of the
\* function name (function for an anonymous function) with one argument per
\* top-level parameter, each argument rendered as null.
C15_ExampleArgumentsAreNull ==
    (Generated /\ example) =>
        /\ Cardinality(ExamplePositions) = 1
        /\ ExampleLine =
              " * " \o (IF KnownName # UNDEF THEN KnownName ELSE "function")
                  \o "(" \o Join([i \in 1..Len(TopNames) |-> "null"], ", ") \o ")"

\* the type column of a rendered @param line: what stands between the braces
TypeColumn(line) == SubSeq(line, IndexOf(line, "{") + 1, IndexOf(line, "}") - 1)

\* the name column of a rendered @param line: what stands between the
\* closing brace and the dash before the description
NameColumnOf(rest) == SubSeq(rest, 1, IndexOf(rest, " - ") - 1)

NameColumn(line) == NameColumnOf(After(line, "} "))

\* the lines are aligned: the type columns are equally wide and as wide as
\* the longest type, and so are the name columns of the lines that carry no
\* default value in brackets
Aligned(lines) ==
    /\ \A i, j \in 1..Len(lines) : Len(TypeColumn(lines[i])) = Len(TypeColumn(lines[j]))
    /\ \A i, j \in 1..Len(lines) :
          (~StartsWith(NameColumn(lines[i]), "[") /\ ~StartsWith(NameColumn(lines[j]), "[")) =>
              Len(NameColumn(lines[i])) = Len(NameColumn(lines[j]))
    /\ lines # <<>> =>
          \E i \in 1..Len(lines) : TrimEnd(TypeColumn(lines[i])) = TypeColumn(lines[i])

\* C24: all @param lines of one rendered comment are column-aligned: every
\* rendered type and every rendered name, on plain, defaulted, property,
\* array-element and rest lines alike, is padded with spaces on the right to
\* the width of the longest rendered type and the longest rendered name.
C24_ParamLinesAligned ==
    Generated => Aligned(TagLines("@param"))

\* the name in a name column, without the brackets and the default value of
\* an optional parameter and without the dots of a rest element
LabelIn(column) ==
    ReplaceFirst(
        IF StartsWith(column, "[")
        THEN TrimEnd(SubSeq(column, 2, IndexOf(column, "=") - 1))
        ELSE TrimEnd(column),
        "...", "")

\* the label of a rendered @param line
Label(line) == LabelIn(NameColumn(line))

\* a destructured parameter or array element under its synthetic name
Synthetic(par) == IsParamN(Tpl(par.name)) /\ ~IsLeaf(par)

\* the label of par: its own name for a top-level parameter and for an array
\* element, else the path of its ancestors' names and its own
PathLabel(par, path, isElement) ==
    IF isElement \/ path = "" THEN Tpl(par.name) ELSE path \o "." \o Tpl(par.name)

\* the path handed down to the children of par: a synthetic name is no part
\* of it
PathBelow(par, path, isElement) ==
    IF ~Synthetic(par) THEN PathLabel(par, path, isElement)
    ELSE IF isElement THEN "" ELSE path

\* the labels of the Parameters at and below par in depth-first source
\* order, synthetic containers left out
RECURSIVE Labels(_, _, _)
RECURSIVE LabelsOfAll(_, _, _)
Labels(par, path, isElement) ==
    (IF Synthetic(par) THEN <<>>
     ELSE <<ReplaceFirst(PathLabel(par, path, isElement), "...", "")>>)
    \o (IF Has(par, "properties")
        THEN LabelsOfAll(par.properties, PathBelow(par, path, isElement), FALSE)
        ELSE <<>>)
    \o (IF Has(par, "elements")
        THEN LabelsOfAll(Present(par.elements), PathBelow(par, path, isElement), TRUE)
        ELSE <<>>)

LabelsOfAll(ps, path, isElement) ==
    IF Len(ps) = 0 THEN <<>>
    ELSE Labels(Head(ps), path, isElement) \o LabelsOfAll(Tail(ps), path, isElement)

\* r can be had from e by leaving entries out
RECURSIVE IsSubsequence(_, _)
IsSubsequence(r, e) ==
    IF r = <<>> THEN TRUE
    ELSE IF e = <<>> THEN FALSE
    ELSE IF Head(r) = Head(e) THEN IsSubsequence(Tail(r), Tail(e))
    ELSE IsSubsequence(r, Tail(e))

\* the labels of the rendered @param lines, top to bottom
RenderedLabels(lines) == [i \in 1..Len(lines) |-> Label(lines[i])]

\* the rendered labels are labels of the tree in order, and all of them when
\* a comment was rendered and no label looks like a synthetic name
LabelsMatch(rendered, expected) ==
    /\ IsSubsequence(rendered, expected)
    /\ (doc # "" /\ \A i \in 1..Len(expected) : ~IsParamN(expected[i])) =>
          rendered = expected

Unannotated == ~(isTypeScript /\ Field(node, "returnType") # NoNode)

OwnBody == Field(node, "body")

ReturnLine(type) == " * @returns {" \o type \o "} - The return value"

FunctionOf(n) == IF n.type = "MethodDefinition" THEN n.value ELSE n

\* the function has an annotation in effect, a return statement carrying a
\* value, or an expression body
HasReturnType ==
    LET f == FunctionOf(node)
    IN  \/ isTypeScript /\ Field(f, "returnType") # NoNode
        \/ ReturnValues(f.body) # <<>>
        \/ f.type = "ArrowFunctionExpression" /\ f.body.type # "BlockStatement"

\* the positions of the lines of the comment that start with the given tag
TagPositions(tag) == {i \in 1..Len(DocLines) : StartsWith(DocLines[i], " * " \o tag)}

\* C10: getReturnType returns null, and the comment has no @returns line,
\* exactly for a function with no annotation in effect, no return statement
\* carrying a value and no expression body; otherwise exactly one @returns
\* line is rendered, after every @param line and right after one blank
\* separator line.
C10_ReturnsLineIffInferred ==
    /\ pc = "getReturnType" => (returnType = UNDEF <=> ~HasReturnType)
    /\ Generated =>
          IF ~HasReturnType THEN TagPositions("@returns") = {}
          ELSE /\ Cardinality(TagPositions("@returns")) = 1
               /\ \A r \in TagPositions("@returns") :
                     /\ DocLines[r - 1] = " * "
                     /\ \A p \in TagPositions("@param") : p < r - 1
                     /\ TagPositions("@param") # {} => DocLines[r - 2] # " * "

(***************************************************************************)
(* Properties of processFile and of the CLI                                *)
(***************************************************************************)

\* processFile has returned
Ran == file # NoNode /\ result # NoNode

Readable == file.text # UNDEF

FileLines == Split(file.text, "\n")

\* the first line of the file that is not blank, "" when every line is
FirstText ==
    LET texts == SelectSeq(FileLines, LAMBDA l : Trim(l) # "")
    IN  IF texts = <<>> THEN "" ELSE texts[1]

\* C16: processFile skips a file whose first non-blank line starts with /**:
\* it returns commentsAdded = 0, skipped = true, exitCode = 0 and writes
\* nothing.
C16_TopCommentSkipsFile ==
    (Ran /\ Readable /\ StartsWith(FirstText, "/**")) =>
        /\ result = [commentsAdded |-> 0, skipped |-> TRUE, exitCode |-> 0]
        /\ writes = <<>>

\* C16 witness: a file that opens with a blank line and then /** was
\* processed without the dryRun option
C16_Witness ==
    /\ Ran /\ Readable /\ ~options.dryRun
    /\ Len(FileLines) >= 2 /\ FileLines[1] = "" /\ StartsWith(FileLines[2], "/**")
    /\ result.skipped

\* how often p occurs in s
RECURSIVE Occurrences(_, _)
Occurrences(s, p) == IF Includes(s, p) THEN 1 + Occurrences(After(s, p), p) ELSE 0

\* what the same call writes without the dryRun option
WouldWrite == processFile(file, [options EXCEPT !.dryRun = FALSE]).writes

\* C17: with the dryRun option processFile writes no file, whether it skips
\* the file, fails to parse it or succeeds; when the run without dryRun would
\* write, the dry run returns skipped = false, exitCode = 0 and as
\* commentsAdded the number of comments the written text would have gained.
C17_DryRunWritesNothing ==
    (Ran /\ options.dryRun) =>
        /\ writes = <<>>
        /\ WouldWrite # <<>> =>
              /\ Has(result, "commentsAdded") /\ ~Has(result, "error")
              /\ result.skipped = FALSE
              /\ result.exitCode = 0
              /\ result.commentsAdded =
                    Occurrences(WouldWrite[1].text, "/**") - Occurrences(file.text, "/**")

\* C17 witness: a dry run over a file with two undocumented functions
C17_Witness ==
    /\ Ran /\ options.dryRun
    /\ Has(result, "commentsAdded") /\ result.commentsAdded = 2
    /\ Len(WouldWrite) = 1

\* C18: the CLI exits with a non-zero status whenever processing ends with an
\* error, that is when no file matches the patterns or a file fails to parse,
\* and stderr then names the error: No files found matching the patterns, or
\* a message containing parsing.
C18_ErrorsExitNonZero ==
    status # -1 =>
        /\ matched = <<>> =>
              /\ status # 0
              /\ \E k \in 1..Len(stderr) :
                    Includes(stderr[k], "No files found matching the patterns")
        /\ (\E i \in 1..Len(matched) : Includes(matched[i].text, BrokenLine)) =>
              /\ status # 0
              /\ \E k \in 1..Len(stderr) : Includes(stderr[k], "parsing")

\* the text processFile wrote or, in a dry run, printed; UNDEF when neither
Produced ==
    IF writes # <<>> THEN writes[1].text
    ELSE IF Len(stdout) = 2 THEN stdout[2]
    ELSE UNDEF

\* the file reaches the search for functions
Traversed ==
    /\ Ran /\ Readable
    /\ ~StartsWith(Trim(FirstText), "/**")
    /\ Trim(file.text) # ""
    /\ ~Includes(file.text, BrokenLine)

\* C19: whenever rendering yields "" for a function of the file, processFile
\* inserts the fallback comment Parsing failed for this function. Please
\* check manually. for it, also when other functions were rendered.
C19_EmptyRenderingGetsFallback ==
    (/\ Traversed
     /\ \E k \in 1..Len(FunctionsIn(FileLines)) :
            /\ ~hasComment(LocNode(FunctionsIn(FileLines)[k].line), file.text)
            /\ CommentFor(FunctionsIn(FileLines)[k], EndsWith(file.path, ".ts")) = "") =>
        /\ Produced # UNDEF
        /\ Includes(Produced, FallbackComment)

\* C20: processFile preserves existing documentation: for a non-empty file in
\* which every function has a comment on the line above it, or which holds no
\* function, the produced text holds no generated comment and equals the
\* input.
C20_DocumentedFileUnchanged ==
    (/\ Ran /\ Readable /\ Trim(file.text) # ""
     /\ \A k \in 1..Len(FunctionsIn(FileLines)) :
            hasComment(LocNode(FunctionsIn(FileLines)[k].line), file.text)) =>
        Produced \in {UNDEF, file.text}

\* the second run has returned: the file is the one the first run wrote
RanAgain == Ran /\ Len(writes) >= 1 /\ file = writes[1]

\* C26: processFile is idempotent on its own output: run again on the text
\* a previous run produced, it inserts no further comment, so it writes
\* nothing or the same text again and reports no comment added.
C26_SecondRunAddsNothing ==
    RanAgain =>
        /\ Len(writes) = 2 => writes[2].text = writes[1].text
        /\ Has(result, "commentsAdded") => result.commentsAdded = 0

\* the function-like constructs of the file: every function line declares
\* one function, the class line one method
Constructs == Cardinality({i \in 1..Len(FileLines) : VisitsOnLine(FileLines[i]) # <<>>})

\* C29: within one processFile run each function-like construct of the
\* source receives at most one generated comment: the text produced, the
\* fallback comment aside, gains no more comments than the file has
\* function declarations and methods.
C29_OneCommentPerFunction ==
    (Ran /\ Readable /\ Produced # UNDEF /\ ~Includes(Produced, FallbackComment)) =>
        Occurrences(Produced, "/**") - Occurrences(file.text, "/**") <= Constructs

\* the matched files whose own processFile result satisfies test
Counted(test(_)) ==
    Cardinality({i \in 1..Len(matched) : test(processFile(matched[i], options).result)})

\* C28: processFiles classifies every matched file into exactly one of
\* processed, skipped or errors: the three counts add up to the number of
\* matched files, exitCode is 1 exactly when errors > 0, a file that fails
\* does not keep the files after it from being processed, and with no
\* matched file the result is processed 0, skipped 0, errors 1, exitCode 1.
C28_EveryFileClassifiedOnce ==
    status # -1 =>
        IF matched = <<>>
        THEN /\ result.processed = 0 /\ result.skipped = 0
             /\ result.errors = 1 /\ result.exitCode = 1
        ELSE /\ result.processed + result.skipped + result.errors = Len(matched)
             /\ result.exitCode = 1 <=> result.errors > 0
             /\ result.exitCode \in {0, 1}
             /\ result.errors = Counted(Errored)
             /\ \A i \in 1..Len(matched) :
                    \A k \in 1..Len(processFile(matched[i], options).writes) :
                        \E w \in 1..Len(writes) :
                            writes[w] = processFile(matched[i], options).writes[k]

\* C28 witness: the first of two matched files fails to parse and counts as
\* an error, the second is processed and written
C28_Witness ==
    /\ status # -1
    /\ Len(matched) = 2
    /\ matched[1].text = BrokenLine /\ options.exitOnError
    /\ result.errors = 1 /\ result.processed = 1
    /\ \E w \in 1..Len(writes) : EndsWith(writes[w].path, matched[2].path)

\* the comments processFile collected for the file
Inserted ==
    OrFallback(IF EndsWith(file.path, ".ts") THEN <<>> ELSE commentsToInsert(file.text))

\* the length of the comments of cs placed at offset off or before it
RECURSIVE LengthUpTo(_, _)
LengthUpTo(cs, off) ==
    IF cs = <<>> THEN 0
    ELSE (IF Head(cs).position <= off THEN Len(Head(cs).text) ELSE 0)
             + LengthUpTo(Tail(cs), off)

\* out is src with every comment of cs right before the character at its
\* position and every character of src kept, in order
Preserves(out, src, cs) ==
    /\ Len(out) = Len(src) + LengthUpTo(cs, Len(src))
    /\ \A k \in 1..Len(cs) :
           /\ cs[k].position \in 0..Len(src)
           /\ SubSeq(out, LengthUpTo(cs, cs[k].position - 1) + cs[k].position + 1,
                          LengthUpTo(cs, cs[k].position) + cs[k].position)
                  = cs[k].text
    /\ \A i \in 1..Len(src) :
           SubSeq(out, i + LengthUpTo(cs, i - 1), i + LengthUpTo(cs, i - 1))
               = SubSeq(src, i, i)

\* C27: the insertion step of processFile preserves the source: the text
\* produced is the code of the file with each collected comment right before
\* the character at its position, the comments in order of position, and
\* every character of the code kept, so deleting the comments gives the code
\* back.
C27_InsertionPreservesSource ==
    (Ran /\ Readable /\ Produced # UNDEF) => Preserves(Produced, file.text, Inserted)

\* C27 witness: two comments were collected in ascending order of position,
\* the second for a function inside the file, and the text was written
C27_Witness ==
    /\ Ran /\ Readable /\ writes # <<>>
    /\ Len(Inserted) = 2
    /\ Inserted[1].position < Inserted[2].position
    /\ Inserted[2].position > 0

\* a return statement with a value below n that belongs to the function n
\* is the body of: nested functions are not entered
RECURSIVE OwnValueReturn(_)
OwnValueReturn(n) ==
    \/ n.type = "ReturnStatement" /\ Field(n, "argument") # NoNode
    \/ n.type = "BlockStatement" /\ \E i \in 1..Len(n.body) : OwnValueReturn(n.body[i])
    \/ n.type = "IfStatement" /\ OwnValueReturn(n.consequent)

\* the only return statements with a value in the block body of the function
\* belong to a nested function, and no annotation gives the type
OnlyInnerReturns ==
    /\ Field(node, "body") # NoNode
    /\ node.body.type = "BlockStatement"
    /\ ~(isTypeScript /\ Field(node, "returnType") # NoNode)
    /\ ~OwnValueReturn(node.body)
    /\ \E i \in 1..Len(node.body.body) : node.body.body[i] = InnerFunction

\* C30: getReturnType infers a return type only from the function's own
\* return statements: when the only return with a value belongs to a nested
\* function, the result for the outer function is null and its comment has
\* no @returns line.
C30_OnlyOwnReturnsCount ==
    OnlyInnerReturns =>
        /\ (pc = "getReturnType" /\ ~thrown) => returnType = UNDEF
        /\ Generated => TagLines("@returns") = <<>>

====
